---------------------------- MODULE Spec2Model ----------------------------
(***************************************************************************)
(* MovieVikings: the social graph (FriendRequest rows), the badge          *)
(* evaluator of the profile view and the multi search of the TMDB adapter. *)
(*                                                                         *)
(* Each subsystem has its own specification (SpecFriends, SpecRace, ...);  *)
(* the variables of the other subsystems stay at their initial values.     *)
(***************************************************************************)
EXTENDS Integers, Sequences, FiniteSets, TLC

VARIABLES
    friendRequests,   \* the FriendRequest table: a set of rows
    last,             \* the last social-graph call: op, caller, target, return
                      \* value, and the rows its delete() statements removed
    sendProc,         \* in-flight send_friend_request calls (concurrent requests)
    watched,          \* the WatchedMovie rows of request.user
    watchlist,        \* the WatchlistItem rows of request.user
    userBadges,       \* the UserBadge rows of request.user: badge id -> row count
    response,         \* the last response of profile_view
    viewProc,         \* profile views in flight (concurrent requests)
    upstream,         \* what the three sub-searches of TMDBClient.search yield
    searchResult,     \* the value TMDBClient.search returned
    args,             \* the arguments of a call of a utility function
    returned,         \* what that call returned
    availability,     \* MovieProvider and TVShowProvider rows: row -> row count
    streamingProviders, \* the tmdb_ids of the StreamingProvider rows
    catalog,          \* the Movie and TVShow rows
    posters,          \* the files of MEDIA_ROOT/posters
    job,              \* the management command that runs, and its progress
    cache,            \* the Django cache: key -> entry
    clock,            \* the time, in minutes
    lastRequest,      \* the last _make_request call and what it did
    toggleProc        \* watchlist and watched requests in flight

friendVars == <<friendRequests, last, sendProc>>

profileVars == <<watched, watchlist, userBadges, response, viewProc>>

searchVars == <<upstream, searchResult>>

utilVars == <<args, returned>>

ingestVars == <<availability, streamingProviders, catalog, posters, job>>

cacheVars == <<cache, clock, lastRequest>>

toggleVars == <<toggleProc>>

vars == <<friendVars, profileVars, searchVars, utilVars, ingestVars, cacheVars,
          toggleVars>>

notFriendVars == <<profileVars, searchVars, utilVars, ingestVars, cacheVars,
                   toggleVars>>

notProfileVars == <<friendVars, searchVars, utilVars, ingestVars, cacheVars,
                    toggleVars>>

notSearchVars == <<friendVars, profileVars, utilVars, ingestVars, cacheVars,
                   toggleVars>>

notUtilVars == <<friendVars, profileVars, searchVars, ingestVars, cacheVars,
                 toggleVars>>

notIngestVars == <<friendVars, profileVars, searchVars, utilVars, cacheVars,
                   toggleVars>>

notCacheVars == <<friendVars, profileVars, searchVars, utilVars, ingestVars,
                  toggleVars>>

(***************************************************************************)
(* The users of the social graph (the three accounts the model tests set   *)
(* up) and the two requests that may be in flight at the same time.        *)
(***************************************************************************)
Users == {"testuser1", "testuser2", "testuser3"}

RaceUsers == {"testuser1", "testuser2"}

Procs == {"request1", "request2"}

(***************************************************************************)
(* FriendRequest rows (models.py FriendRequest)                            *)
(***************************************************************************)
STATUS_CHOICES == {"pending", "accepted", "rejected"}

FriendRequest == [from_user : Users, to_user : Users, status : STATUS_CHOICES]

\* filter((from=a & to=b) | (from=b & to=a)): the rows between two users
Between(rows, a, b) ==
    {r \in rows : \/ (r.from_user = a /\ r.to_user = b)
                  \/ (r.from_user = b /\ r.to_user = a)}

\* unique_together = ('from_user', 'to_user'): an insert of a second row for
\* the same ordered pair raises IntegrityError and writes nothing.
UniqueViolation(rows, from, to) ==
    \E r \in rows : r.from_user = from /\ r.to_user = to

CreateRequestNoUnique(rows, from, to) ==
    [rows |-> rows \cup {[from_user |-> from, to_user |-> to, status |-> "pending"]},
     ret |-> "True"]

\* FriendRequest.objects.create(from_user, to_user): status defaults to pending
CreateRequest(rows, from, to) ==
    IF UniqueViolation(rows, from, to)
    THEN [rows |-> rows, ret |-> "IntegrityError"]
    ELSE [rows |-> rows \cup {[from_user |-> from, to_user |-> to,
                               status |-> "pending"]},
          ret |-> "True"]

\* The existence check of send_friend_request: rows in either direction.
ExistingRequestOneWay(rows, self, to) ==
    {r \in rows : r.from_user = self /\ r.to_user = to}

ExistingRequest(rows, self, to) == Between(rows, self, to)

SendFriendRequestNoCheck(rows, self, to) ==
    IF to = self
    THEN [rows |-> rows, ret |-> "False"]
    ELSE CreateRequest(rows, self, to)

\* User.send_friend_request(self, to_user)
SendFriendRequest(rows, self, to) ==
    IF to = self
    THEN [rows |-> rows, ret |-> "False"]
    ELSE IF ExistingRequest(rows, self, to) # {}
         THEN [rows |-> rows, ret |-> "False"]
         ELSE CreateRequest(rows, self, to)

PendingFromAnyStatus(rows, self, from) ==
    {r \in rows : r.from_user = from /\ r.to_user = self}

\* FriendRequest.objects.get(from_user=from, to_user=self, status='pending')
PendingFrom(rows, self, from) ==
    {r \in rows : r.from_user = from /\ r.to_user = self /\ r.status = "pending"}

\* request.status = newStatus; request.save()
SetStatus(rows, r, newStatus) ==
    (rows \ {r}) \cup {[r EXCEPT !.status = newStatus]}

\* User.accept_friend_request / reject_friend_request share their shape:
\* get the pending row from from_user to self, set its status, save.
Respond(rows, self, from, newStatus) ==
    IF PendingFrom(rows, self, from) = {}
    THEN [rows |-> rows, ret |-> "False"]
    ELSE LET r == CHOOSE x \in PendingFrom(rows, self, from) : TRUE
         IN  [rows |-> SetStatus(rows, r, newStatus), ret |-> "True"]

AcceptFriendRequest(rows, self, from) == Respond(rows, self, from, "accepted")

RejectFriendRequest(rows, self, from) == Respond(rows, self, from, "rejected")

\* User.unfriend(self, user): delete the accepted rows between the two, then
\* every row between the two.
UnfriendAcceptedOnly(rows, self, user) ==
    rows \ {r \in Between(rows, self, user) : r.status = "accepted"}

Unfriend(rows, self, user) ==
    LET afterAccepted ==
            rows \ {r \in Between(rows, self, user) : r.status = "accepted"}
    IN  afterAccepted \ Between(afterAccepted, self, user)

\* User.get_friends(self): ids reachable over accepted rows, both directions
GetFriendsSentOnly(rows, self) ==
    {r.to_user : r \in {x \in rows : x.from_user = self /\ x.status = "accepted"}}

GetFriends(rows, self) ==
    LET accepted_sent ==
            {r.to_user : r \in {x \in rows : x.from_user = self
                                             /\ x.status = "accepted"}}
        accepted_received ==
            {r.from_user : r \in {x \in rows : x.to_user = self
                                               /\ x.status = "accepted"}}
        friend_ids == accepted_sent \cup accepted_received
    IN  {u \in Users : u \in friend_ids}

(***************************************************************************)
(* Watched entries, badges and counters of the profile view                *)
(***************************************************************************)
\* A nullable column or an optional request parameter: None or one value.
None == <<>>

Some(x) == <<x>>

\* The titles a request may name: two movies and a TV show that shares its
\* TMDB id with one of the movies (movies and shows are numbered apart).
Titles == {[media_id |-> "603", media_type |-> "movie"],
           [media_id |-> "604", media_type |-> "movie"],
           [media_id |-> "603", media_type |-> "tv"]}

MediaIds == {t.media_id : t \in Titles}

\* What the TMDB details call yields for the runtime: nothing, or minutes.
RuntimeInputs == {None, Some(90)}

\* The rating and review parameters of a rate_content POST.
RatingInputs == {None, Some("3"), Some("9"), Some("abc")}

ReviewInputs == {None, Some(""), Some("good")}

\* The Badge rows: create_initial_badges' kinds, with thresholds scaled down
\* to what three titles can reach.
Badges == {[id |-> "movie_1",  requirement_type |-> "movies_watched",   requirement_count |-> 1],
           [id |-> "movie_2",  requirement_type |-> "movies_watched",   requirement_count |-> 2],
           [id |-> "tv_1",     requirement_type |-> "tv_shows_watched", requirement_count |-> 1],
           [id |-> "critic_1", requirement_type |-> "reviews_written",  requirement_count |-> 1],
           [id |-> "viewer_3", requirement_type |-> "watch_hours",      requirement_count |-> 3]}

BadgeIds == {b.id : b \in Badges}

RequirementTypes ==
    <<"movies_watched", "tv_shows_watched", "reviews_written", "watch_hours">>

\* Badge.objects.filter(requirement_type=kind).order_by('requirement_count')
RECURSIVE OrderByRequirement(_)
OrderByRequirement(bs) ==
    IF bs = {} THEN <<>>
    ELSE LET b == CHOOSE x \in bs :
                      \A y \in bs : x.requirement_count <= y.requirement_count
         IN  <<b>> \o OrderByRequirement(bs \ {b})

BadgesOfType(kind) ==
    OrderByRequirement({b \in Badges : b.requirement_type = kind})

\* The order in which profile_view walks the badges: lines 650-687.
BadgeOrder ==
    BadgesOfType(RequirementTypes[1]) \o BadgesOfType(RequirementTypes[2])
        \o BadgesOfType(RequirementTypes[3]) \o BadgesOfType(RequirementTypes[4])

\* aggregate(total=Sum('runtime')) over the rows that have a runtime
RECURSIVE SumRuntime(_)
SumRuntime(rows) ==
    IF rows = {} THEN 0
    ELSE LET w == CHOOSE x \in rows : TRUE
         IN  w.runtime[1] + SumRuntime(rows \ {w})

MOVIE_ESTIMATE == 120
TV_ESTIMATE == 400

TotalStoredMinutes(rows) == SumRuntime({w \in rows : w.runtime # None})

\* Lines 619-644: the four counters of the viewing user.
TotalWatchMinutes(rows) ==
    LET with_runtime == {w \in rows : w.runtime # None}
        items_without_runtime == {w \in rows : w.runtime = None}
        movies_without_runtime ==
            Cardinality({w \in items_without_runtime : w.media_type = "movie"})
        tv_without_runtime ==
            Cardinality({w \in items_without_runtime : w.media_type = "tv"})
    IN  SumRuntime(with_runtime)
            + (movies_without_runtime * MOVIE_ESTIMATE)
            + (tv_without_runtime * TV_ESTIMATE)

Counters(rows) ==
    [movies_watched   |-> Cardinality({w \in rows : w.media_type = "movie"}),
     tv_shows_watched |-> Cardinality({w \in rows : w.media_type = "tv"}),
     reviews_written  |-> Cardinality({w \in rows : w.review # None
                                                     /\ w.review # Some("")}),
     watch_hours      |-> TotalWatchMinutes(rows) \div 60]

\* if counter >= badge.requirement_count
Qualifies(counters, b) == counters[b.requirement_type] >= b.requirement_count

CreateUserBadgeNoUnique(grants, id) == [grants EXCEPT ![id] = @ + 1]

\* UserBadge.objects.create under unique_together = ('user', 'badge'): a
\* second row for the badge raises IntegrityError and writes nothing.
CreateUserBadge(grants, id) ==
    IF grants[id] > 0 THEN grants ELSE [grants EXCEPT ![id] = 1]

\* UserBadge.objects.get_or_create(user=request.user, badge=badge), run with
\* no other request in between: get, and create when the get finds no row.
GetOrCreate(grants, id) ==
    IF grants[id] > 0 THEN grants ELSE CreateUserBadge(grants, id)

RECURSIVE SyncBadges(_, _, _)
SyncBadges(grants, badges, counters) ==
    IF badges = <<>> THEN grants
    ELSE LET b == Head(badges)
         IN  SyncBadges([grants EXCEPT ![b.id] =
                            IF Qualifies(counters, b) THEN 1 ELSE 0],
                        Tail(badges), counters)

\* Lines 650-687: the four award loops.
RECURSIVE AwardBadges(_, _, _)
AwardBadges(grants, badges, counters) ==
    IF badges = <<>> THEN grants
    ELSE LET b == Head(badges)
         IN  AwardBadges(IF Qualifies(counters, b)
                         THEN GetOrCreate(grants, b.id)
                         ELSE grants,
                         Tail(badges), counters)

\* IntegerField.get_prep_value on the rating parameter: int(value), which
\* raises ValueError for text that is no number; None is stored as NULL.
IsNumber(text) == text \in {"3", "9"}

IntOf(text) == CASE text = "3" -> 3 [] text = "9" -> 9

\* A response: the handler branch taken, the HTTP status, and the counters of
\* the rendered context (a redirect or an error page renders none).
NoResponse == [handler |-> "none", status |-> 0, context |-> None]

IdleView == [pc |-> "idle", counters |-> Counters({}), next |-> 0]

ProfileStart ==
    /\ watched = {}
    /\ watchlist = {}
    /\ userBadges = [id \in BadgeIds |-> 0]
    /\ response = NoResponse
    /\ viewProc = [p \in Procs |-> IdleView]

(***************************************************************************)
(* TMDBClient.search: the merge of the three sub-searches                  *)
(***************************************************************************)
\* Bounds of the sub-search results: the longest list one sub-search yields
\* and the largest TMDB id.
MaxLen == 2

MaxId == 2

\* item.get("id"): a TMDB id (a positive number), or None for an item that
\* carries no id.
ItemIds == {None} \cup {Some(n) : n \in 1..MaxId}

\* The items of one sub-search; the title tells where the item came from
\* (the titles of test_search_movies).
ItemsOf(title) == [id : ItemIds, title : {title}]

BoundedSeq(S, n) == UNION {[1..k -> S] : k \in 0..n}

\* What get_collection_movies, keyword_search and the search/<type> request
\* yield as their "results"; {} or a missing key is the empty list.
Upstreams ==
    [collection : BoundedSeq(ItemsOf("Collection Movie"), MaxLen),
     keyword    : BoundedSeq(ItemsOf("Keyword Movie 1"), MaxLen),
     title      : BoundedSeq(ItemsOf("Matrix"), MaxLen)]

NoSearch == [collection |-> <<>>, keyword |-> <<>>, title |-> <<>>]

NoResult == [status |-> "none", results |-> <<>>]

SearchIdle ==
    /\ upstream = NoSearch
    /\ searchResult = NoResult

\* No utility function has been called.
NoArgs == [fn |-> "none"]

NotReturned == [status |-> "none"]

UtilIdle ==
    /\ args = NoArgs
    /\ returned = NotReturned

\* Lines 283-296: the three result lists, extended in this order.
Aggregated(up) == up.collection \o up.keyword \o up.title

\* Python truthiness of item.get("id"): None and 0 are false.
Truthy(item_id) == item_id # None /\ item_id[1] # 0

RECURSIVE KeepAll(_, _, _)
KeepAll(items, seen_ids, unique_results) ==
    IF items = <<>> THEN unique_results
    ELSE LET item == Head(items)
         IN  IF Truthy(item.id)
             THEN KeepAll(Tail(items), seen_ids, Append(unique_results, item))
             ELSE KeepAll(Tail(items), seen_ids, unique_results)

\* Lines 299-306: the de-duplication loop.
RECURSIVE RemoveDuplicates(_, _, _)
RemoveDuplicates(items, seen_ids, unique_results) ==
    IF items = <<>> THEN unique_results
    ELSE LET item    == Head(items)
             item_id == item.id
         IN  IF Truthy(item_id) /\ item_id \notin seen_ids
             THEN RemoveDuplicates(Tail(items), seen_ids \cup {item_id},
                                   Append(unique_results, item))
             ELSE RemoveDuplicates(Tail(items), seen_ids, unique_results)

\* Line 309: the synthetic item.
Placeholder == [id |-> Some(0), title |-> "No results found"]

NeverPlaceholder(results) == results

\* Lines 307-309: an empty list is replaced by the placeholder alone.
OrPlaceholder(results) ==
    IF results = <<>> THEN <<Placeholder>> ELSE results

\* TMDBClient.search, the value of aggregated_results["results"].
SearchResults(up) ==
    OrPlaceholder(RemoveDuplicates(Aggregated(up), {}, <<>>))

(***************************************************************************)
(* update_watch_providers: the availability rows of the stored titles      *)
(***************************************************************************)
\* Movie.objects.all().order_by('-popularity') and the same for TVShow: the
\* stored titles, by their tmdb_id.
StoredMovies == <<603, 604>>

StoredShows == <<1399>>

DigitTexts == <<"0", "1", "2", "3", "4", "5", "6", "7", "8", "9">>

\* str() of a non-negative int
RECURSIVE Str(_)
Str(n) ==
    IF n < 10 THEN DigitTexts[n + 1]
    ELSE Str(n \div 10) \o DigitTexts[(n % 10) + 1]

ContentItem(media_type, tmdb_id) == [media_type |-> media_type, tmdb_id |-> tmdb_id]

IngestItems ==
    {ContentItem("movie", StoredMovies[i]) : i \in DOMAIN StoredMovies}
        \cup {ContentItem("tv", StoredShows[i]) : i \in DOMAIN StoredShows}

ALLOWED_REGIONS == {"NO", "US", "GB", "DE", "FR", "SE", "DK"}

\* The types the three loops of update_movie_providers handle, in their order.
AvailabilityTypes == <<"flatrate", "rent", "buy">>

\* All rows MovieProvider and TVShowProvider may come to hold in the model.
AvailabilityRows ==
    [item : IngestItems, provider : {8, 9}, region : {"NO", "US"},
     type : {"flatrate", "rent", "buy"}]

\* Entries of a provider list of the upstream response; the last one lacks the
\* 'provider_name' key.
Netflix == [provider_id |-> 8, provider_name |-> Some("Netflix")]

Prime == [provider_id |-> 9, provider_name |-> Some("Amazon Prime Video")]

Unnamed == [provider_id |-> 9, provider_name |-> None]

\* One region of the "results" object: the provider lists by type ('ads' is a
\* type the command does not store); a type that is absent is the empty list.
RegionData(region, flatrate, rent, buy, ads) ==
    [region |-> region, flatrate |-> flatrate, rent |-> rent, buy |-> buy,
     ads |-> ads]

\* The "results" objects of the upstream responses, regions in the order of
\* the JSON object.
NoAvailability == <<>>

StreamNO == <<RegionData("NO", <<Netflix>>, <<>>, <<>>, <<>>)>>

StreamRentBuy ==
    <<RegionData("NO", <<Netflix>>, <<>>, <<Prime>>, <<>>),
      RegionData("JP", <<Prime>>, <<>>, <<>>, <<>>),
      RegionData("US", <<>>, <<Prime>>, <<>>, <<>>)>>

OnlyElsewhere ==
    <<RegionData("JP", <<Netflix>>, <<>>, <<>>, <<>>),
      RegionData("NO", <<>>, <<>>, <<>>, <<Netflix>>)>>

ListedTwice == <<RegionData("NO", <<Netflix, Netflix>>, <<>>, <<>>, <<>>)>>

EntryWithoutName == <<RegionData("NO", <<Prime>>, <<Unnamed>>, <<>>, <<>>)>>

ProviderResults ==
    {NoAvailability, StreamNO, StreamRentBuy, OnlyElsewhere, ListedTwice,
     EntryWithoutName}

\* What the watch/providers request yields: the HTTP status and the results.
ProviderUpstreams ==
    {[status |-> 500, results |-> NoAvailability]}
        \cup {[status |-> 200, results |-> r] : r \in ProviderResults}

\* fetch_watch_providers: {} unless the status is 200
FetchWatchProviders(response_) ==
    IF response_.status # 200 THEN <<>> ELSE response_.results

\* The provider entries of one region in the order of the three loops.
EntriesOfRegion(region_data) ==
    [i \in 1..Len(region_data.flatrate) |->
        [region |-> region_data.region, type |-> AvailabilityTypes[1],
         entry |-> region_data.flatrate[i]]]
    \o [i \in 1..Len(region_data.rent) |->
        [region |-> region_data.region, type |-> AvailabilityTypes[2],
         entry |-> region_data.rent[i]]]
    \o [i \in 1..Len(region_data.buy) |->
        [region |-> region_data.region, type |-> AvailabilityTypes[3],
         entry |-> region_data.buy[i]]]

\* for region, region_data in providers_data.items(): regions outside
\* ALLOWED_REGIONS are passed over.
RECURSIVE Entries(_)
Entries(providers_data) ==
    IF providers_data = <<>> THEN <<>>
    ELSE LET region_data == Head(providers_data)
         IN  (IF region_data.region \in ALLOWED_REGIONS
              THEN EntriesOfRegion(region_data) ELSE <<>>)
                 \o Entries(Tail(providers_data))

\* MovieProvider.objects.filter(movie=movie).delete()
DeleteItemRows(rows, item) ==
    [r \in AvailabilityRows |-> IF r.item = item THEN 0 ELSE rows[r]]

CreateProviderRowNoUnique(st, row) ==
    [st EXCEPT !.rows = [st.rows EXCEPT ![row] = @ + 1]]

\* MovieProvider.objects.create under unique_together
\* ['movie', 'provider', 'region', 'type']
CreateProviderRow(st, row) ==
    IF st.rows[row] > 0
    THEN [st EXCEPT !.error = "IntegrityError"]
    ELSE [st EXCEPT !.rows = [st.rows EXCEPT ![row] = 1]]

\* get_or_create_provider: provider_data['provider_id'] and
\* provider_data['provider_name'] are read before the query.
GetOrCreateProvider(st, entry) ==
    IF entry.provider_name = None
    THEN [st EXCEPT !.error = "KeyError"]
    ELSE [st EXCEPT !.providers = @ \cup {entry.provider_id}]

\* The body of the three loops, until the first exception.
RECURSIVE CreateRows(_, _, _)
CreateRows(st, item, entries) ==
    IF entries = <<>> \/ st.error # "" THEN st
    ELSE LET e      == Head(entries)
             looked == GetOrCreateProvider(st, e.entry)
             row    == [item |-> item, provider |-> e.entry.provider_id,
                        region |-> e.region, type |-> e.type]
         IN  IF looked.error # "" THEN looked
             ELSE CreateRows(CreateProviderRow(looked, row), item, Tail(entries))

CommitAlways(before, after) == after

\* The end of the @transaction.atomic block.  The except clause is inside the
\* block, so the block is always left without an exception: it commits,
\* unless a database error has marked the transaction for rollback.
EndAtomic(before, after) ==
    IF after.error = "IntegrityError" THEN [before EXCEPT !.error = after.error]
    ELSE after

\* update_movie_providers / update_tv_providers (the two differ in the table)
UpdateProviders(rows, providers, item, providers_data) ==
    LET before == [rows |-> rows, providers |-> providers, error |-> ""]
        after  == CreateRows([before EXCEPT !.rows = DeleteItemRows(rows, item)],
                             item, Entries(providers_data))
        final  == EndAtomic(before, after)
    IN  [rows |-> final.rows, providers |-> final.providers,
         ret |-> IF final.error = "" THEN "True" ELSE "False",
         error |-> final.error]

UpdateMovieProviders(rows, providers, movie, providers_data) ==
    UpdateProviders(rows, providers, ContentItem("movie", movie), providers_data)

UpdateTvProviders(rows, providers, show, providers_data) ==
    UpdateProviders(rows, providers, ContentItem("tv", show), providers_data)

NoUpstream == [status |-> 0, results |-> NoAvailability]

\* No command runs.
NoJob == [command |-> "none", pc |-> "idle", index |-> 0, updated |-> 0,
          skipped |-> 0, item |-> ContentItem("none", 0), upstream |-> NoUpstream,
          ret |-> "None", repeat |-> 0, selected |-> 0, download |-> "none"]

IngestIdle ==
    /\ availability = [r \in AvailabilityRows |-> 0]
    /\ streamingProviders = {}
    /\ catalog = {}
    /\ posters = {}
    /\ job = NoJob

(***************************************************************************)
(* The cache of TMDBClient._make_request                                   *)
(***************************************************************************)
\* timeout=60 * 15 seconds, in minutes
CACHE_TIMEOUT == 15

\* The clock advances in steps of TickMinutes up to MaxClock.
TickMinutes == 5

MaxClock == 20

\* The order of sorted() on the parameter names.
NameOrder == <<"append_to_response", "page", "query">>

\* Calls the client makes: endpoint and params (None, or the pairs of the
\* dict in the order they are written).
Requests ==
    {[endpoint |-> "movie/popular", params |-> <<<<"page", "1">>>>],
     [endpoint |-> "trending/movie/week", params |-> <<>>],
     [endpoint |-> "search/movie",
      params |-> <<<<"query", "x">>, <<"page", "1">>>>]}

\* sorted(params.items()): the pairs in the order of their names
RECURSIVE SortedItems(_, _)
SortedItems(params, names) ==
    IF names = <<>> THEN <<>>
    ELSE SelectSeq(params, LAMBDA kv : kv[1] = Head(names))
            \o SortedItems(params, Tail(names))

\* "_".join(f"{k}:{v}" for k, v in ...)
RECURSIVE JoinItems(_)
JoinItems(items) ==
    IF items = <<>> THEN ""
    ELSE Head(items)[1] \o ":" \o Head(items)[2]
            \o (IF Tail(items) = <<>> THEN "" ELSE "_" \o JoinItems(Tail(items)))

\* cache_key = f"tmdb_{endpoint}", with the joined pairs when params is truthy
CacheKey(endpoint, params) ==
    IF params = <<>> THEN "tmdb_" \o endpoint
    ELSE "tmdb_" \o endpoint \o "_" \o JoinItems(SortedItems(params, NameOrder))

CacheGetNoExpiry(entries, key, now) ==
    IF key \in DOMAIN entries THEN Some(entries[key].data) ELSE None

\* cache.get(cache_key): the value of an entry that has not expired
CacheGet(entries, key, now) ==
    IF key \in DOMAIN entries /\ now < entries[key].expires
    THEN Some(entries[key].data) ELSE None

\* cache.set(cache_key, data, timeout=60 * 15)
CacheSet(entries, key, data, now) ==
    (key :> [data |-> data, expires |-> now + CACHE_TIMEOUT]) @@ entries

\* What requests.get can do: raise, or answer with a status and a body.
HttpOutcomes ==
    {[status |-> 0, data |-> None], [status |-> 404, data |-> None],
     [status |-> 200, data |-> Some("v1")], [status |-> 200, data |-> Some("v2")]}

\* response.raise_for_status() raises for 4xx and 5xx
RaiseForStatus(status) == 400 <= status /\ status < 600

\* No call yet; fetched is the record of the answered requests: for each call
\* (endpoint, params), when its last answered GET was made and the body.
NoRequest ==
    [endpoint |-> "", params |-> <<>>, key |-> "", at |-> 0, get |-> FALSE,
     outcome |-> "none", status |-> 0, data |-> None, fetched |-> <<>>]

CacheIdle ==
    /\ cache = <<>>
    /\ clock = 0
    /\ lastRequest = NoRequest

(***************************************************************************)
(* Watchlist and watched requests in flight                                *)
(***************************************************************************)
\* The titles the requests are about, and the title texts of the POST.
ToggleTitles == {t \in Titles : t.media_id = "603"}

TitleTexts == {"The Matrix", "Matrix"}

\* A request that has not started (or has been answered).
IdleToggle == [pc |-> "idle", op |-> "none", media_id |-> "", media_type |-> "",
               title |-> "", existing |-> None]

ToggleIdle == toggleProc = [p \in Procs |-> IdleToggle]

(***************************************************************************)
(* Social graph, one call at a time                                        *)
(***************************************************************************)
NoCall == [op |-> "none", caller |-> "none", target |-> "none", ret |-> "None",
           deleted |-> {}]

IdleProc == [pc |-> "idle", caller |-> "none", to |-> "none"]

FriendsStart ==
    /\ friendRequests = {}
    /\ last = NoCall
    /\ sendProc = [p \in Procs |-> IdleProc]

InitFriends ==
    FriendsStart /\ ProfileStart /\ SearchIdle /\ UtilIdle /\ IngestIdle /\ CacheIdle
        /\ ToggleIdle

\* send_friend_request_view: the model method decides (the view's own
\* already-friends and already-pending guards are cases in which the method
\* returns False as well).
SendFriendRequestCall(self, to) ==
    LET res == SendFriendRequest(friendRequests, self, to)
    IN  /\ friendRequests' = res.rows
        /\ last' = [op |-> "send", caller |-> self, target |-> to, ret |-> res.ret, deleted |-> {}]
        /\ UNCHANGED <<sendProc, notFriendVars>>

AcceptFriendRequestCall(self, from) ==
    LET res == AcceptFriendRequest(friendRequests, self, from)
    IN  /\ friendRequests' = res.rows
        /\ last' = [op |-> "accept", caller |-> self, target |-> from, ret |-> res.ret, deleted |-> {}]
        /\ UNCHANGED <<sendProc, notFriendVars>>

RejectFriendRequestCall(self, from) ==
    LET res == RejectFriendRequest(friendRequests, self, from)
    IN  /\ friendRequests' = res.rows
        /\ last' = [op |-> "reject", caller |-> self, target |-> from, ret |-> res.ret, deleted |-> {}]
        /\ UNCHANGED <<sendProc, notFriendVars>>

UnfriendCall(self, user) ==
    /\ friendRequests' = Unfriend(friendRequests, self, user)
    /\ last' = [op |-> "unfriend", caller |-> self, target |-> user, ret |-> "True",
                deleted |-> friendRequests \ Unfriend(friendRequests, self, user)]
    /\ UNCHANGED <<sendProc, notFriendVars>>

\* accept_friend_request_view(request, request_id): the row with that id must
\* be a pending row addressed to request.user, else nothing is called.
AcceptFriendRequestView(user, req) ==
    IF req \in friendRequests /\ req.to_user = user /\ req.status = "pending"
    THEN AcceptFriendRequestCall(user, req.from_user)
    ELSE /\ last' = [op |-> "accept_view_miss", caller |-> user,
                     target |-> req.from_user, ret |-> "None", deleted |-> {}]
         /\ UNCHANGED <<friendRequests, sendProc, notFriendVars>>

RejectFriendRequestView(user, req) ==
    IF req \in friendRequests /\ req.to_user = user /\ req.status = "pending"
    THEN RejectFriendRequestCall(user, req.from_user)
    ELSE /\ last' = [op |-> "reject_view_miss", caller |-> user,
                     target |-> req.from_user, ret |-> "None", deleted |-> {}]
         /\ UNCHANGED <<friendRequests, sendProc, notFriendVars>>

\* The request_id of the URL: the id of a row of the table, or an id that no
\* row has (NoSuchRequest).
NoSuchRequest == [from_user |-> "none", to_user |-> "none", status |-> "none"]

RequestIds == friendRequests \cup {NoSuchRequest}

NextFriends ==
    \/ \E self \in Users, to \in Users : SendFriendRequestCall(self, to)
    \/ \E self \in Users, from \in Users : AcceptFriendRequestCall(self, from)
    \/ \E self \in Users, from \in Users : RejectFriendRequestCall(self, from)
    \/ \E self \in Users, user \in Users : UnfriendCall(self, user)
    \/ \E user \in Users, req \in RequestIds : AcceptFriendRequestView(user, req)
    \/ \E user \in Users, req \in RequestIds : RejectFriendRequestView(user, req)

SpecFriends == InitFriends /\ [][NextFriends]_vars

(***************************************************************************)
(* Social graph, two send_friend_request calls in flight: the existence    *)
(* check (models.py 63-69) and the insert (models.py 72) are two database  *)
(* statements, and the statements of another request may run between them. *)
(***************************************************************************)
\* Lines 59-69: the self check and the existence query.  A call that returns
\* False here is over; one that passes goes on to the insert.
SendCheck(p, self, to) ==
    /\ sendProc[p].pc = "idle"
    /\ IF to = self \/ ExistingRequest(friendRequests, self, to) # {}
       THEN /\ last' = [op |-> "send", caller |-> self, target |-> to,
                        ret |-> "False", deleted |-> {}]
            /\ UNCHANGED <<friendRequests, sendProc, notFriendVars>>
       ELSE /\ sendProc' = [sendProc EXCEPT ![p] =
                                [pc |-> "checked", caller |-> self, to |-> to]]
            /\ UNCHANGED <<friendRequests, last, notFriendVars>>

\* Lines 72-73: the insert, against the table as it is now.
SendInsert(p) ==
    /\ sendProc[p].pc = "checked"
    /\ LET res == CreateRequest(friendRequests, sendProc[p].caller, sendProc[p].to)
       IN  /\ friendRequests' = res.rows
           /\ last' = [op |-> "send", caller |-> sendProc[p].caller,
                       target |-> sendProc[p].to, ret |-> res.ret, deleted |-> {}]
    /\ sendProc' = [sendProc EXCEPT ![p] = IdleProc]
    /\ UNCHANGED notFriendVars

NextRace ==
    \/ \E p \in Procs, self \in RaceUsers, to \in RaceUsers : SendCheck(p, self, to)
    \/ \E p \in Procs : SendInsert(p)
    \/ \E self \in RaceUsers, from \in RaceUsers : AcceptFriendRequestCall(self, from)
    \/ \E self \in RaceUsers, from \in RaceUsers : RejectFriendRequestCall(self, from)
    \/ \E self \in RaceUsers, user \in RaceUsers : UnfriendCall(self, user)

SpecRace == InitFriends /\ [][NextRace]_vars

(***************************************************************************)
(* profile_view, one request at a time.  Every request, GET or POST, first *)
(* counts and awards badges (lines 610-726) and then handles its POST      *)
(* branch (lines 728-847); each ORM statement commits on its own.          *)
(***************************************************************************)
SameTitle(w, media_id, media_type) ==
    w.media_id = media_id /\ w.media_type = media_type

\* WatchedMovie.objects.create under unique_together
\* ('user', 'media_id', 'media_type'); rating and review start as NULL.
CreateWatched(rows, media_id, media_type, runtime) ==
    IF \E w \in rows : SameTitle(w, media_id, media_type)
    THEN rows
    ELSE rows \cup {[media_id |-> media_id, media_type |-> media_type,
                     runtime |-> runtime, rating |-> None, review |-> None]}

\* Lines 695-726: the first badge of the kind, in threshold order, whose
\* threshold the counter has not reached; None when there is none.
RECURSIVE FirstAbove(_, _)
FirstAbove(badges, count) ==
    IF badges = <<>> THEN None
    ELSE IF count < Head(badges).requirement_count THEN Some(Head(badges))
    ELSE FirstAbove(Tail(badges), count)

NextBadge(counters, kind) == FirstAbove(BadgesOfType(kind), counters[kind])

\* (counter / badge.requirement_count) * 100, in whole percent; 0 without a
\* next badge
BadgeProgress(counters, kind) ==
    LET badge == NextBadge(counters, kind)
    IN  IF badge = None THEN 0
        ELSE (counters[kind] * 100) \div badge[1].requirement_count

\* The context of the rendered page: the counters, and per kind the next
\* badge and the progress towards it.
RenderContext(counters) ==
    [movies_watched   |-> counters.movies_watched,
     tv_shows_watched |-> counters.tv_shows_watched,
     reviews_written  |-> counters.reviews_written,
     watch_hours      |-> counters.watch_hours,
     next_badge       |-> [k \in DOMAIN counters |-> NextBadge(counters, k)],
     progress         |-> [k \in DOMAIN counters |-> BadgeProgress(counters, k)]]

\* GET /profile/: count, award, render.
ProfileGet ==
    LET counters == Counters(watched)
    IN  /\ userBadges' = AwardBadges(userBadges, BadgeOrder, counters)
        /\ response' = [handler |-> "get", status |-> 200,
                        context |-> Some(RenderContext(counters))]
        /\ UNCHANGED <<watched, watchlist, viewProc, notProfileVars>>

\* POST mark_watched (lines 729-788): runtime is what the TMDB details call
\* gave (None when it failed or had none).
ProfileMarkWatched(media_id, media_type, runtime) ==
    LET counters == Counters(watched)
        existing == {w \in watched : SameTitle(w, media_id, media_type)}
    IN  /\ userBadges' = AwardBadges(userBadges, BadgeOrder, counters)
        /\ IF existing = {}
           THEN /\ watched' = CreateWatched(watched, media_id, media_type, runtime)
                /\ watchlist' = {i \in watchlist : ~ SameTitle(i, media_id, media_type)}
           ELSE UNCHANGED <<watched, watchlist>>
        /\ response' = [handler |-> "mark_watched", status |-> 302, context |-> None]
        /\ UNCHANGED <<viewProc, notProfileVars>>

\* POST rate_content (lines 791-810): get() by user and media_id alone.
\* DoesNotExist is passed over; MultipleObjectsReturned and the ValueError of
\* a rating that is no number are not caught and end the request (500).
ProfileRateContent(media_id, rating, review) ==
    LET counters == Counters(watched)
        matches  == {w \in watched : w.media_id = media_id}
    IN  /\ userBadges' = AwardBadges(userBadges, BadgeOrder, counters)
        /\ IF matches = {}
           THEN /\ response' = [handler |-> "rate_content", status |-> 302, context |-> None]
                /\ UNCHANGED watched
           ELSE IF Cardinality(matches) > 1
                     \/ (rating # None /\ ~ IsNumber(rating[1]))
           THEN /\ response' = [handler |-> "rate_content", status |-> 500, context |-> None]
                /\ UNCHANGED watched
           ELSE LET watched_item == CHOOSE w \in matches : TRUE
                    stored == IF rating = None THEN None
                              ELSE Some(IntOf(rating[1]))
                IN  /\ watched' = (watched \ {watched_item}) \cup
                           {[watched_item EXCEPT !.rating = stored,
                                                 !.review = review]}
                    /\ response' = [handler |-> "rate_content", status |-> 302, context |-> None]
        /\ UNCHANGED <<watchlist, viewProc, notProfileVars>>

\* POST remove_watchlist (lines 813-828)
ProfileRemoveWatchlist(media_id, media_type) ==
    LET counters == Counters(watched)
    IN  /\ userBadges' = AwardBadges(userBadges, BadgeOrder, counters)
        /\ watchlist' = {i \in watchlist : ~ SameTitle(i, media_id, media_type)}
        /\ response' = [handler |-> "remove_watchlist", status |-> 302, context |-> None]
        /\ UNCHANGED <<watched, viewProc, notProfileVars>>

\* POST remove_watched (lines 831-847)
ProfileRemoveWatched(media_id, media_type) ==
    LET counters == Counters(watched)
    IN  /\ userBadges' = AwardBadges(userBadges, BadgeOrder, counters)
        /\ watched' = {w \in watched : ~ SameTitle(w, media_id, media_type)}
        /\ response' = [handler |-> "remove_watched", status |-> 302, context |-> None]
        /\ UNCHANGED <<watchlist, viewProc, notProfileVars>>

CreateWatchlistItemNoUnique(rows, row) == rows \cup {row}

\* WatchlistItem.objects.create under unique_together
\* ('user', 'media_id', 'media_type'): a second row for the key raises
\* IntegrityError and writes nothing.
CreateWatchlistItem(rows, row) ==
    IF \E i \in rows : SameTitle(i, row.media_id, row.media_type)
    THEN rows
    ELSE rows \cup {row}

\* add_to_watchlist (views.py 912-956), run with no other request in
\* between: a toggle.
AddToWatchlist(media_id, media_type, title) ==
    /\ IF \E i \in watchlist : SameTitle(i, media_id, media_type)
       THEN watchlist' = {i \in watchlist : ~ SameTitle(i, media_id, media_type)}
       ELSE watchlist' = CreateWatchlistItem(watchlist,
                [media_id |-> media_id, media_type |-> media_type,
                 title |-> title])
    /\ UNCHANGED <<watched, userBadges, response, viewProc, notProfileVars>>

InitProfile ==
    FriendsStart /\ ProfileStart /\ SearchIdle /\ UtilIdle /\ IngestIdle /\ CacheIdle
        /\ ToggleIdle

NextProfile ==
    \/ ProfileGet
    \/ \E t \in Titles, runtime \in RuntimeInputs :
          ProfileMarkWatched(t.media_id, t.media_type, runtime)
    \/ \E media_id \in MediaIds, rating \in RatingInputs, review \in ReviewInputs :
          ProfileRateContent(media_id, rating, review)
    \/ \E t \in Titles : ProfileRemoveWatched(t.media_id, t.media_type)

SpecProfile == InitProfile /\ [][NextProfile]_vars

(***************************************************************************)
(* profile_view, two GET requests of the same user in flight.  A view      *)
(* reads its counters once (lines 619-644) and then walks the badges; for  *)
(* a badge whose threshold is met, get_or_create is a SELECT and, when     *)
(* that finds no row, an INSERT: the statements of the other request, and  *)
(* whole POST requests, may run between any two of them.                   *)
(***************************************************************************)
\* The next badge at or after position i of BadgeOrder whose threshold the
\* counters meet (the loops pass over the others without a query).
RECURSIVE NextQualifying(_, _)
NextQualifying(counters, i) ==
    IF i > Len(BadgeOrder) THEN i
    ELSE IF Qualifies(counters, BadgeOrder[i]) THEN i
    ELSE NextQualifying(counters, i + 1)

\* Lines 619-644: the counters are read.
ViewBegin(p) ==
    /\ viewProc[p].pc = "idle"
    /\ LET counters == Counters(watched)
       IN  viewProc' = [viewProc EXCEPT ![p] =
               [pc |-> "get", counters |-> counters,
                next |-> NextQualifying(counters, 1)]]
    /\ UNCHANGED <<watched, watchlist, userBadges, response, notProfileVars>>

\* get_or_create, the SELECT: a row that exists ends the call.
ViewGet(p) ==
    /\ viewProc[p].pc = "get"
    /\ viewProc[p].next <= Len(BadgeOrder)
    /\ IF userBadges[BadgeOrder[viewProc[p].next].id] > 0
       THEN viewProc' = [viewProc EXCEPT ![p].next =
                            NextQualifying(viewProc[p].counters, @ + 1)]
       ELSE viewProc' = [viewProc EXCEPT ![p].pc = "create"]
    /\ UNCHANGED <<watched, watchlist, userBadges, response, notProfileVars>>

\* get_or_create, the INSERT: on IntegrityError the row is fetched instead.
ViewCreate(p) ==
    /\ viewProc[p].pc = "create"
    /\ userBadges' = CreateUserBadge(userBadges, BadgeOrder[viewProc[p].next].id)
    /\ viewProc' = [viewProc EXCEPT ![p].pc = "get",
                                    ![p].next = NextQualifying(viewProc[p].counters, @ + 1)]
    /\ UNCHANGED <<watched, watchlist, response, notProfileVars>>

\* Lines 689-726 and 849-904: the page is rendered.
ViewRender(p) ==
    /\ viewProc[p].pc = "get"
    /\ viewProc[p].next > Len(BadgeOrder)
    /\ response' = [handler |-> "get", status |-> 200,
                    context |-> Some(RenderContext(viewProc[p].counters))]
    /\ viewProc' = [viewProc EXCEPT ![p] = IdleView]
    /\ UNCHANGED <<watched, watchlist, userBadges, notProfileVars>>

\* The titles the POST requests name while views are in flight.
ViewTitles == {t \in Titles : t.media_id = "603"}

NextViews ==
    \/ \E p \in Procs : ViewBegin(p)
    \/ \E p \in Procs : ViewGet(p)
    \/ \E p \in Procs : ViewCreate(p)
    \/ \E p \in Procs : ViewRender(p)
    \/ \E t \in ViewTitles : ProfileMarkWatched(t.media_id, t.media_type, None)
    \/ \E t \in ViewTitles : ProfileRateContent(t.media_id, Some("3"), Some("good"))
    \/ \E t \in ViewTitles : ProfileRemoveWatched(t.media_id, t.media_type)

SpecViews == InitProfile /\ [][NextViews]_vars

(***************************************************************************)
(* TMDBClient.search, one call over each combination of sub-search results *)
(***************************************************************************)
InitSearch ==
    /\ FriendsStart
    /\ ProfileStart
    /\ upstream \in Upstreams
    /\ searchResult = NoResult
    /\ UtilIdle
    /\ IngestIdle
    /\ CacheIdle
    /\ ToggleIdle

\* search() returns.
Search ==
    /\ searchResult.status = "none"
    /\ searchResult' = [status |-> "returned", results |-> SearchResults(upstream)]
    /\ UNCHANGED <<upstream, notSearchVars>>

\* search() raises: the ValueError of line 276, or the exception of a
\* request that failed (raise_for_status, line 109); nothing is returned.
SearchRaises ==
    /\ searchResult.status = "none"
    /\ searchResult' = [status |-> "raised", results |-> <<>>]
    /\ UNCHANGED <<upstream, notSearchVars>>

NextSearch ==
    \/ Search
    \/ SearchRaises

SpecSearch == InitSearch /\ [][NextSearch]_vars

(***************************************************************************)
(* Properties of the social graph                                          *)
(***************************************************************************)
PendingRow(from, to) == [from_user |-> from, to_user |-> to, status |-> "pending"]

SamePair(r, s) == r.from_user = s.from_user /\ r.to_user = s.to_user

\* C1: send_friend_request(to) returns False and creates no row when to is
\* the caller or when a row of any status exists between the two users in
\* either direction; in every other case it creates exactly one pending row
\* caller -> to and returns True.
C1_SendContract ==
    [][last'.op = "send" =>
        LET self == last'.caller
            to   == last'.target
        IN  IF to = self \/ Between(friendRequests, self, to) # {}
            THEN /\ last'.ret = "False"
                 /\ friendRequests' = friendRequests
            ELSE /\ last'.ret = "True"
                 /\ PendingRow(self, to) \notin friendRequests
                 /\ friendRequests' = friendRequests \cup {PendingRow(self, to)}
      ]_vars

\* A send was refused because the other user's request to the caller had been
\* rejected earlier.
C1_Witness ==
    /\ last.op = "send"
    /\ last.ret = "False"
    /\ last.caller # last.target
    /\ [from_user |-> last.target, to_user |-> last.caller, status |-> "rejected"]
           \in friendRequests

\* C2: a row's status changes only pending -> accepted or pending -> rejected,
\* and only by accept/reject called by the row's to_user for its from_user;
\* accepted and rejected rows keep their status until unfriend deletes them;
\* new rows are pending rows made by send; accept/reject return False and
\* change nothing when no pending row from that sender to the caller exists.
C2_StatusMachine ==
    [][/\ \A r \in friendRequests :
            \/ r \in friendRequests'
            \/ /\ r.status = "pending"
               /\ last'.op \in {"accept", "reject"}
               /\ last'.ret = "True"
               /\ last'.caller = r.to_user
               /\ last'.target = r.from_user
               /\ {s \in friendRequests' : SamePair(r, s)} =
                      {[r EXCEPT !.status =
                           IF last'.op = "accept" THEN "accepted" ELSE "rejected"]}
            \/ /\ last'.op = "unfriend"
               /\ {last'.caller, last'.target} = {r.from_user, r.to_user}
               /\ {s \in friendRequests' : SamePair(r, s)} = {}
       /\ \A s \in friendRequests' \ friendRequests :
            \/ s.status = "pending" /\ last'.op = "send"
                   /\ {r \in friendRequests : SamePair(r, s)} = {}
            \/ s.status # "pending" /\ last'.op \in {"accept", "reject"}
                   /\ PendingRow(s.from_user, s.to_user) \in friendRequests
       /\ (/\ last'.op \in {"accept", "reject"}
           /\ PendingRow(last'.target, last'.caller) \notin friendRequests)
              => (last'.ret = "False" /\ friendRequests' = friendRequests)
      ]_vars

\* An accept was refused for a row that is already rejected, and the row is
\* still rejected.
C2_Witness ==
    /\ last.op = "accept"
    /\ last.ret = "False"
    /\ [from_user |-> last.target, to_user |-> last.caller, status |-> "rejected"]
           \in friendRequests

\* C3: friendship is symmetric and is exactly the existence of an accepted
\* row between the two users in either direction; after a successful accept
\* each of the two users is in the other's friend list.
C3_FriendsSymmetric ==
    /\ \A a \in Users, b \in Users :
          /\ (b \in GetFriends(friendRequests, a)) = (a \in GetFriends(friendRequests, b))
          /\ (b \in GetFriends(friendRequests, a))
                = (\E r \in Between(friendRequests, a, b) : r.status = "accepted")
    /\ (last.op = "accept" /\ last.ret = "True")
          => /\ last.target \in GetFriends(friendRequests, last.caller)
             /\ last.caller \in GetFriends(friendRequests, last.target)

\* testuser2 has just accepted testuser1's request, and each lists the other.
C3_Witness ==
    /\ last.op = "accept" /\ last.ret = "True"
    /\ last.caller = "testuser2" /\ last.target = "testuser1"
    /\ "testuser2" \in GetFriends(friendRequests, "testuser1")
    /\ "testuser1" \in GetFriends(friendRequests, "testuser2")

\* C4: after A.unfriend(B) no row exists between A and B, whatever the status
\* before; neither is in the other's friend list; every other row is
\* unchanged; and a send between the two (A # B) that follows returns True.
C4_UnfriendClears ==
    [][/\ last'.op = "unfriend" =>
            LET a == last'.caller
                b == last'.target
            IN  /\ Between(friendRequests', a, b) = {}
                /\ b \notin GetFriends(friendRequests', a)
                /\ a \notin GetFriends(friendRequests', b)
                /\ friendRequests' = friendRequests \ Between(friendRequests, a, b)
       /\ (/\ last.op = "unfriend"
           /\ last.caller # last.target
           /\ last'.op = "send"
           /\ {last'.caller, last'.target} = {last.caller, last.target})
              => last'.ret = "True"
      ]_vars

\* An unfriend has deleted a rejected row while a row with a third user stays.
C4_Witness ==
    /\ last.op = "unfriend"
    /\ \E r \in last.deleted : r.status = "rejected"
    /\ \E r \in friendRequests :
          /\ last.caller \in {r.from_user, r.to_user}
          /\ last.target \notin {r.from_user, r.to_user}

\* C5: with calls that run one at a time, an accepted row between two users
\* is the only row between that unordered pair.
C5_AcceptedRowAlone ==
    \A r \in friendRequests :
        r.status = "accepted" =>
            Between(friendRequests, r.from_user, r.to_user) = {r}

\* A send in the opposite direction of an accepted row was refused.
C5_Witness ==
    /\ last.op = "send" /\ last.ret = "False"
    /\ [from_user |-> last.target, to_user |-> last.caller, status |-> "accepted"]
           \in friendRequests

\* C6 as claimed: with concurrent sends the rows (A,B) and (B,A) never exist
\* at the same time.
C6_NeverBothDirections ==
    \A a \in Users, b \in Users :
        a # b => ~ (/\ UniqueViolation(friendRequests, a, b)
                    /\ UniqueViolation(friendRequests, b, a))

\* C6 as amended: with concurrent sends there is at most one row per ordered
\* pair, and an insert that follows a passed check is stopped only by a row of
\* the same ordered pair (IntegrityError, nothing written); a row of the
\* opposite direction does not stop it, so both directions come to exist.
C6_OnlyOrderedPairUnique ==
    /\ [](\A r \in friendRequests, s \in friendRequests : SamePair(r, s) => r = s)
    /\ [][\A p \in Procs :
            (sendProc[p].pc = "checked" /\ sendProc'[p].pc = "idle") =>
                LET self == sendProc[p].caller
                    to   == sendProc[p].to
                IN  IF UniqueViolation(friendRequests, self, to)
                    THEN /\ last'.ret = "IntegrityError"
                         /\ friendRequests' = friendRequests
                    ELSE /\ last'.ret = "True"
                         /\ friendRequests' =
                                friendRequests \cup {PendingRow(self, to)}
         ]_vars

\* Both sends returned True and both directions exist.
C6_Witness ==
    /\ last.op = "send" /\ last.ret = "True"
    /\ UniqueViolation(friendRequests, "testuser1", "testuser2")
    /\ UniqueViolation(friendRequests, "testuser2", "testuser1")

(***************************************************************************)
(* Properties of the badge evaluator                                       *)
(***************************************************************************)
\* C7: a grant that exists is still there after any later profile view,
\* mark-watched, rate or remove-watched operation, also when the counter that
\* led to it has dropped below the badge's threshold.
C7_GrantsMonotonic ==
    [][\A id \in BadgeIds : userBadges[id] >= 1 => userBadges'[id] >= 1]_vars

\* The page was rendered with fewer than two watched movies while the badge
\* for two watched movies is held.
C7_Witness ==
    /\ response.handler = "get"
    /\ response.context # None
    /\ response.context[1].movies_watched < 2
    /\ userBadges["movie_2"] >= 1

\* C8: when a profile view has evaluated the badges, every badge whose
\* threshold is at most the counter of its kind, as the view counted it at its
\* start, is granted; a grant is only ever created by a view whose own counter
\* meets the badge's threshold; and there is never more than one grant per
\* badge, with two views of the user in flight at once.
C8_EvaluationGrants ==
    /\ [](\A p \in Procs :
            viewProc[p].pc # "idle" =>
                \A i \in 1..Len(BadgeOrder) :
                    (i < viewProc[p].next
                        /\ Qualifies(viewProc[p].counters, BadgeOrder[i]))
                      => userBadges[BadgeOrder[i].id] >= 1)
    /\ [](\A id \in BadgeIds : userBadges[id] <= 1)
    /\ [][/\ \A p \in Procs :
               (viewProc[p].pc = "get" /\ viewProc'[p].pc = "idle") =>
                   \A b \in Badges :
                       Qualifies(viewProc[p].counters, b) => userBadges'[b.id] = 1
          /\ viewProc' = viewProc =>
               \A b \in Badges :
                   Qualifies(Counters(watched), b) => userBadges'[b.id] = 1
          /\ \A b \in Badges :
               userBadges'[b.id] > userBadges[b.id] =>
                   \/ /\ viewProc' = viewProc
                      /\ Qualifies(Counters(watched), b)
                   \/ \E p \in Procs :
                        /\ viewProc[p].pc = "create"
                        /\ viewProc'[p].pc = "get"
                        /\ BadgeOrder[viewProc[p].next] = b
                        /\ Qualifies(viewProc[p].counters, b)
         ]_vars

\* A view found no grant for a badge and is about to insert it, the other
\* view is past that badge, and the grant has come to exist in between; a
\* badge above the first view's counter is not granted.
C8_Witness ==
    /\ viewProc["request1"].pc = "create"
    /\ viewProc["request2"].pc = "get"
    /\ viewProc["request2"].next > viewProc["request1"].next
    /\ userBadges[BadgeOrder[viewProc["request1"].next].id] = 1
    /\ \E b \in Badges : ~ Qualifies(viewProc["request1"].counters, b)
                         /\ userBadges[b.id] = 0

(***************************************************************************)
(* Properties of the multi search                                          *)
(***************************************************************************)
\* The external ids among the items of a list.
ExternalIds(items) == {items[i].id : i \in DOMAIN items} \ {None}

\* The position of the first item of the list that carries the id.
FirstIndex(items, id) ==
    CHOOSE i \in DOMAIN items :
        items[i].id = id /\ \A j \in 1..(i - 1) : items[j].id # id

\* C9: search returns every distinct external id of the concatenation
\* collection, keyword, title exactly once, in the order of each id's first
\* occurrence in the concatenation.
C9_DistinctIdsFirstSeen ==
    searchResult.status = "returned" =>
        LET all == Aggregated(upstream)
            res == searchResult.results
        IN  /\ {res[i].id : i \in DOMAIN res} \ {Placeholder.id} = ExternalIds(all)
            /\ \A id \in ExternalIds(all) :
                   Cardinality({i \in DOMAIN res : res[i].id = id}) = 1
            /\ \A i \in DOMAIN res, j \in DOMAIN res :
                   (i < j /\ res[i].id \in ExternalIds(all)
                          /\ res[j].id \in ExternalIds(all))
                     => FirstIndex(all, res[i].id) < FirstIndex(all, res[j].id)

\* As in test_search_movies: id 1 comes from the collection and again from
\* the title search, id 2 from the keyword search and again from the title
\* search; each is returned once, in the order collection, keyword.
C9_Witness ==
    /\ searchResult.status = "returned"
    /\ upstream.collection = <<[id |-> Some(1), title |-> "Collection Movie"]>>
    /\ upstream.keyword = <<[id |-> Some(2), title |-> "Keyword Movie 1"]>>
    /\ upstream.title = <<[id |-> Some(2), title |-> "Matrix"],
                          [id |-> Some(1), title |-> "Matrix"]>>
    /\ searchResult.results = <<[id |-> Some(1), title |-> "Collection Movie"],
                                [id |-> Some(2), title |-> "Keyword Movie 1"]>>

\* C10: the list search returns is never empty: it is the placeholder (id 0,
\* title "No results found") alone when the merged, de-duplicated list is
\* empty, and holds no placeholder when that list is not empty.
C10_PlaceholderIffEmpty ==
    searchResult.status = "returned" =>
        LET res == searchResult.results
        IN  /\ res # <<>>
            /\ Placeholder.id = Some(0)
            /\ Placeholder.title = "No results found"
            /\ IF ExternalIds(Aggregated(upstream)) = {}
               THEN res = <<Placeholder>>
               ELSE \A i \in DOMAIN res : res[i] # Placeholder /\ res[i].id # Some(0)

\* The sub-searches yielded items, none with an id: the placeholder alone is
\* returned.
C10_Witness ==
    /\ searchResult.status = "returned"
    /\ Aggregated(upstream) # <<>>
    /\ ExternalIds(Aggregated(upstream)) = {}
    /\ searchResult.results = <<Placeholder>>

(***************************************************************************)
(* paginate_results (utils.py) over django.core.paginator.Paginator        *)
(***************************************************************************)
\* Bounds: the longest list paginated and the largest page size.
MaxItems == 5

MaxPerPage == 2

\* The page_number argument: request.GET.get('page', 1) hands over the text of
\* the parameter, the tests hand over numbers.
IntPage(n) == [type |-> "int", int |-> n, str |-> ""]

StrPage(t) == [type |-> "str", int |-> 0, str |-> t]

NonePage == [type |-> "None", int |-> 0, str |-> ""]

PageTexts == {"abc", "", "2.5", "2", "0", "-1"}

PageNumbers ==
    {IntPage(n) : n \in (-1)..(MaxItems + 1)}
        \cup {StrPage(t) : t \in PageTexts} \cup {NonePage}

\* int(number) in Paginator.validate_number: the number itself, the number a
\* text spells, or nothing (TypeError, ValueError).
PageInt(page_number) ==
    IF page_number.type = "int" THEN Some(page_number.int)
    ELSE IF page_number.type = "str"
         THEN CASE page_number.str = "2"  -> Some(2)
                [] page_number.str = "0"  -> Some(0)
                [] page_number.str = "-1" -> Some(-1)
                [] OTHER -> None
         ELSE None

\* Paginator.num_pages with orphans = 0 and allow_empty_first_page = True:
\* ceil(max(1, count) / per_page)
NumPages(items, per_page) ==
    LET hits == IF Len(items) > 1 THEN Len(items) ELSE 1
    IN  (hits + per_page - 1) \div per_page

\* Paginator.validate_number
ValidateNumber(items, per_page, page_number) ==
    LET number == PageInt(page_number)
    IN  IF number = None THEN [raised |-> "PageNotAnInteger", number |-> 0]
        ELSE IF number[1] < 1 THEN [raised |-> "EmptyPage", number |-> 0]
        ELSE IF number[1] > NumPages(items, per_page)
             THEN [raised |-> "EmptyPage", number |-> 0]
        ELSE [raised |-> "", number |-> number[1]]

\* Paginator.page for a valid number: object_list[bottom:top]
PageOf(items, per_page, number) ==
    LET bottom == (number - 1) * per_page
        top    == IF bottom + per_page >= Len(items) THEN Len(items)
                  ELSE bottom + per_page
    IN  [number |-> number, object_list |-> SubSeq(items, bottom + 1, top)]

PaginateResultsFirstPage(items, page_number, items_per_page) ==
    LET v == ValidateNumber(items, items_per_page, page_number)
    IN  IF v.raised # "" THEN PageOf(items, items_per_page, 1)
        ELSE PageOf(items, items_per_page, v.number)

\* paginate_results(items, page_number, items_per_page)
PaginateResults(items, page_number, items_per_page) ==
    LET v == ValidateNumber(items, items_per_page, page_number)
    IN  IF v.raised = "PageNotAnInteger"
        THEN PageOf(items, items_per_page, 1)
        ELSE IF v.raised = "EmptyPage"
        THEN PageOf(items, items_per_page, NumPages(items, items_per_page))
        ELSE PageOf(items, items_per_page, v.number)

PaginateArgs ==
    [fn : {"paginate_results"},
     items : {[i \in 1..n |-> i] : n \in 0..MaxItems},
     page_number : PageNumbers,
     items_per_page : 1..MaxPerPage]

InitPaginate ==
    /\ FriendsStart
    /\ ProfileStart
    /\ SearchIdle
    /\ IngestIdle
    /\ CacheIdle
    /\ ToggleIdle
    /\ args \in PaginateArgs
    /\ returned = NotReturned

PaginateResultsCall ==
    /\ args.fn = "paginate_results"
    /\ returned.status = "none"
    /\ returned' = [status |-> "returned",
                    page |-> PaginateResults(args.items, args.page_number,
                                             args.items_per_page)]
    /\ UNCHANGED <<args, notUtilVars>>

NextPaginate == PaginateResultsCall

SpecPaginate == InitPaginate /\ [][NextPaginate]_vars

\* The last page of a list: page 1 for an empty list.
LastPage(items, per_page) ==
    IF Len(items) = 0 THEN 1
    ELSE CHOOSE n \in 1..Len(items) :
             (n - 1) * per_page < Len(items) /\ Len(items) <= n * per_page

\* The items of page n: those at positions (n-1)*per_page+1 .. n*per_page.
ItemsOfPage(items, per_page, n) ==
    LET first == (n - 1) * per_page + 1
        final == IF n * per_page < Len(items) THEN n * per_page ELSE Len(items)
    IN  [i \in 1..(final - first + 1) |-> items[first + i - 1]]

MaxContent == 2

\* The popularity and rating columns (FloatField, not null) of the rows.
PopularityValues == {10, 50, 100}

RatingValues == {6, 7, 9}

\* The rows a queryset yields, in the order the database returns them; the
\* tmdb_id is unique within a table.
ContentRows(first_id) ==
    UNION {{[i \in 1..n |-> [tmdb_id |-> first_id + i,
                              popularity |-> q[i][1], rating |-> q[i][2]]] :
              q \in [1..n -> PopularityValues \X RatingValues]} :
           n \in 0..MaxContent}

\* float(value) if value is not None else 0.0
FloatOrZero(value) == IF value = None THEN 0 ELSE value[1]

\* process_content_item: the fields the view sorts by, and the media type.
ProcessContentItem(item, media_type) ==
    [tmdb_id |-> item.tmdb_id,
     media_type |-> media_type,
     rating |-> FloatOrZero(Some(item.rating)),
     popularity |-> FloatOrZero(Some(item.popularity))]

\* [process_content_item(item, watchlist_ids, media_type) for item in qs]
ProcessAll(qs, media_type) ==
    [i \in 1..Len(qs) |-> ProcessContentItem(qs[i], media_type)]

SortKeyRatingFirst(x) == <<x.rating, x.popularity>>

\* key=lambda x: (x.get('popularity', 0), x.get('rating', 0))
SortKey(x) == <<x.popularity, x.rating>>

\* Python's order on the key tuples
KeyLess(a, b) == a[1] < b[1] \/ (a[1] = b[1] /\ a[2] < b[2])

\* list.sort(key=..., reverse=True) is stable: an item goes behind every item
\* that was before it and whose key is not smaller.
RECURSIVE InsertDescending(_, _)
InsertDescending(sorted, x) ==
    IF sorted = <<>> THEN <<x>>
    ELSE IF KeyLess(SortKey(Head(sorted)), SortKey(x))
         THEN <<x>> \o sorted
         ELSE <<Head(sorted)>> \o InsertDescending(Tail(sorted), x)

RECURSIVE SortDescending(_, _)
SortDescending(sorted, rest) ==
    IF rest = <<>> THEN sorted
    ELSE SortDescending(InsertDescending(sorted, Head(rest)), Tail(rest))

\* Lines 279-288: process, extend, sort.
AllContentDicts(movies_qs, tv_shows_qs) ==
    SortDescending(<<>>, ProcessAll(movies_qs, "movie") \o ProcessAll(tv_shows_qs, "tv"))

PopularArgs ==
    [fn : {"popular"},
     movies_qs : ContentRows(100),
     tv_shows_qs : ContentRows(200)]

InitPopular ==
    /\ FriendsStart
    /\ ProfileStart
    /\ SearchIdle
    /\ IngestIdle
    /\ CacheIdle
    /\ ToggleIdle
    /\ args \in PopularArgs
    /\ returned = NotReturned

\* popular, up to the call of paginate_results
PopularSort ==
    /\ args.fn = "popular"
    /\ returned.status = "none"
    /\ returned' = [status |-> "returned",
                    all_content_dicts |->
                        AllContentDicts(args.movies_qs, args.tv_shows_qs)]
    /\ UNCHANGED <<args, notUtilVars>>

NextPopular == PopularSort

SpecPopular == InitPopular /\ [][NextPopular]_vars

\* The processed records of the two querysets, as a set (a table holds a
\* tmdb_id once, so no two records are equal).
ProcessedRecords ==
    {[tmdb_id |-> args.movies_qs[i].tmdb_id, media_type |-> "movie",
      rating |-> args.movies_qs[i].rating,
      popularity |-> args.movies_qs[i].popularity] : i \in DOMAIN args.movies_qs}
    \cup
    {[tmdb_id |-> args.tv_shows_qs[i].tmdb_id, media_type |-> "tv",
      rating |-> args.tv_shows_qs[i].rating,
      popularity |-> args.tv_shows_qs[i].popularity] : i \in DOMAIN args.tv_shows_qs}

\* C12: the list handed to pagination is a permutation of the processed movie
\* and TV records, ordered by popularity descending and, among records of
\* equal popularity, by rating descending.
C12_SortedByPopularityThenRating ==
    (args.fn = "popular" /\ returned.status = "returned") =>
        LET list == returned.all_content_dicts
        IN  /\ Len(list) = Len(args.movies_qs) + Len(args.tv_shows_qs)
            /\ {list[i] : i \in DOMAIN list} = ProcessedRecords
            /\ \A i \in DOMAIN list, j \in DOMAIN list : i # j => list[i] # list[j]
            /\ \A i \in DOMAIN list, j \in DOMAIN list :
                   i < j =>
                       \/ list[i].popularity > list[j].popularity
                       \/ /\ list[i].popularity = list[j].popularity
                          /\ list[i].rating >= list[j].rating

\* A movie of popularity 100 and rating 7 and shows of 50/9 and 100/6, given
\* in that order, come out as 100/7, 100/6, 50/9.
C12_Witness ==
    /\ args.fn = "popular"
    /\ returned.status = "returned"
    /\ args.movies_qs = <<[tmdb_id |-> 101, popularity |-> 100, rating |-> 7]>>
    /\ args.tv_shows_qs = <<[tmdb_id |-> 201, popularity |-> 50, rating |-> 9],
                            [tmdb_id |-> 202, popularity |-> 100, rating |-> 6]>>
    /\ returned.all_content_dicts =
           <<[tmdb_id |-> 101, media_type |-> "movie", rating |-> 7, popularity |-> 100],
             [tmdb_id |-> 202, media_type |-> "tv", rating |-> 6, popularity |-> 100],
             [tmdb_id |-> 201, media_type |-> "tv", rating |-> 9, popularity |-> 50]>>

(***************************************************************************)
(* get_popular_movies / get_popular_tv_shows (utils.py): the region and    *)
(* provider filters over the availability rows                             *)
(***************************************************************************)
NEWS_GENRE_ID == 10763

TALK_GENRE_ID == 10767

\* The codes of REGION_CHOICES (models.py 13-21).
REGION_CHOICES == {"NO", "US", "GB", "DE", "FR", "SE", "DK"}

\* The rows of the query model: two titles, two providers (TMDB ids 8 and 9),
\* two regions.
ContentIds == {603, 604}

ProviderIds == {8, 9}

QueryRegions == {"NO", "US"}

\* MovieProvider / TVShowProvider rows of the stored titles.
StreamingInfo ==
    [content : ContentIds, provider : ProviderIds, region : QueryRegions,
     type : {"flatrate"}]

\* The genres a stored show may carry; 18 is a genre that is not excluded.
GenreSets == {{}, {NEWS_GENRE_ID}, {TALK_GENRE_ID}, {18}}

\* selected_provider_ids: the provider parameters of the request
ProviderFilters == {<<>>, <<8>>, <<9>>, <<8, 9>>}

InList(x, list) == \E i \in DOMAIN list : list[i] = x

\* .exclude(Q(genres__tmdb_id=NEWS_GENRE_ID) | Q(genres__tmdb_id=TALK_GENRE_ID))
ExcludeNewsAndTalk(items, genres) ==
    {m \in items : NEWS_GENRE_ID \notin genres[m] /\ TALK_GENRE_ID \notin genres[m]}

\* .filter(streaming_info__region=region): a join with the availability rows;
\* one result row per title and matching availability row.
JoinRegion(items, rows, region) ==
    {<<m, r>> : m \in items, r \in {x \in rows : x.region = region}}
        \cap {j \in items \X rows : j[2].content = j[1]}

\* A second .filter(streaming_info__provider__tmdb_id__in=ids): filter() calls
\* that follow one another over a to-many relation each join the relation
\* anew, so the provider is looked for among all rows of the title.
JoinProvider(joined, rows, ids) ==
    {<<j[1], j[2], r>> : j \in joined, r \in {x \in rows : InList(x.provider, ids)}}
        \cap {t \in ContentIds \X rows \X rows : t[3].content = t[1]}

\* The result rows of the SQL statement, in an order the database chooses.
RECURSIVE ResultRows(_)
ResultRows(joined) ==
    IF joined = {} THEN <<>>
    ELSE LET j == CHOOSE x \in joined : TRUE
         IN  <<j[1]>> \o ResultRows(joined \ {j})

\* .distinct(): SELECT DISTINCT over the columns of the title
RECURSIVE Distinct(_, _)
Distinct(result_rows, seen) ==
    IF result_rows = <<>> THEN <<>>
    ELSE IF Head(result_rows) \in seen THEN Distinct(Tail(result_rows), seen)
    ELSE <<Head(result_rows)>>
             \o Distinct(Tail(result_rows), seen \cup {Head(result_rows)})

\* The filters both functions share (utils.py 132-141 and 170-178).
FilterByRegionAndProviders(items, rows, region, selected_provider_ids) ==
    LET by_region == JoinRegion(items, rows, region)
    IN  IF selected_provider_ids # <<>>
        THEN Distinct(ResultRows(JoinProvider(by_region, rows, selected_provider_ids)), {})
        ELSE Distinct(ResultRows(by_region), {})

\* get_popular_movies(region, limit, selected_provider_ids); limit is unused.
GetPopularMovies(rows, region, selected_provider_ids) ==
    FilterByRegionAndProviders(ContentIds, rows, region, selected_provider_ids)

\* get_popular_tv_shows(region, limit, selected_provider_ids)
GetPopularTvShows(rows, genres, region, selected_provider_ids) ==
    FilterByRegionAndProviders(ExcludeNewsAndTalk(ContentIds, genres), rows,
                               region, selected_provider_ids)

NoGenres == [m \in ContentIds |-> {}]

QueryArgs ==
    [fn : {"get_popular_movies"}, rows : SUBSET StreamingInfo, genres : {NoGenres},
     region : QueryRegions, selected_provider_ids : ProviderFilters]
    \cup
    [fn : {"get_popular_tv_shows"}, rows : SUBSET StreamingInfo,
     genres : [ContentIds -> GenreSets],
     region : QueryRegions, selected_provider_ids : ProviderFilters]

InitQuery ==
    /\ FriendsStart
    /\ ProfileStart
    /\ SearchIdle
    /\ IngestIdle
    /\ CacheIdle
    /\ ToggleIdle
    /\ args \in QueryArgs
    /\ returned = NotReturned

GetPopularMoviesCall ==
    /\ args.fn = "get_popular_movies"
    /\ returned.status = "none"
    /\ returned' = [status |-> "returned",
                    items |-> GetPopularMovies(args.rows, args.region,
                                               args.selected_provider_ids)]
    /\ UNCHANGED <<args, notUtilVars>>

GetPopularTvShowsCall ==
    /\ args.fn = "get_popular_tv_shows"
    /\ returned.status = "none"
    /\ returned' = [status |-> "returned",
                    items |-> GetPopularTvShows(args.rows, args.genres, args.region,
                                                args.selected_provider_ids)]
    /\ UNCHANGED <<args, notUtilVars>>

NextQuery ==
    \/ GetPopularMoviesCall
    \/ GetPopularTvShowsCall

SpecQuery == InitQuery /\ [][NextQuery]_vars

\* An availability row of title m in the region of the call whose provider is
\* in the filter list, when a filter list is given.
QualifyingRow(m, r) ==
    /\ r.content = m
    /\ r.region = args.region
    /\ args.selected_provider_ids # <<>> => InList(r.provider, args.selected_provider_ids)

\* C13 as claimed: every returned movie or show has an availability row in the
\* region of the call whose provider is in the filter list (one row meets
\* both; with no filter list, a row in the region), and no item is returned
\* twice.
C13_SameRowInRegionAndFilter ==
    (args.fn \in {"get_popular_movies", "get_popular_tv_shows"}
        /\ returned.status = "returned") =>
        /\ \A i \in DOMAIN returned.items :
               \E r \in args.rows : QualifyingRow(returned.items[i], r)
        /\ \A i \in DOMAIN returned.items, j \in DOMAIN returned.items :
               i # j => returned.items[i] # returned.items[j]

\* Title 603 is on provider 8 in NO and on provider 9 in US only; the call for
\* region NO and provider 9 returns it.
C13_Witness ==
    /\ args.fn = "get_popular_movies"
    /\ returned.status = "returned"
    /\ args.region = "NO"
    /\ args.selected_provider_ids = <<9>>
    /\ args.rows = {[content |-> 603, provider |-> 8, region |-> "NO", type |-> "flatrate"],
                    [content |-> 603, provider |-> 9, region |-> "US", type |-> "flatrate"]}
    /\ returned.items = <<603>>

(***************************************************************************)
(* update_movie_providers / update_tv_providers, called one after another  *)
(***************************************************************************)
\* The Movie and TVShow rows the refresh runs over, each with title and
\* overview.
StoredCatalog == {[item |-> i, complete |-> TRUE] : i \in IngestItems}

InitProviders ==
    /\ FriendsStart
    /\ ProfileStart
    /\ SearchIdle
    /\ UtilIdle
    /\ availability = [r \in AvailabilityRows |-> 0]
    /\ streamingProviders = {}
    /\ catalog = StoredCatalog
    /\ posters = {}
    /\ job = NoJob
    /\ CacheIdle
    /\ ToggleIdle

\* The record of a call: the item, the response and the return value, and
\* whether the call before it had the same item and response (repeat = 2).
CallRecord(command, item, providers_data, ret) ==
    [NoJob EXCEPT !.command = command,
                  !.item = item,
                  !.upstream = [status |-> 200, results |-> providers_data],
                  !.ret = ret,
                  !.repeat = IF job.item = item /\ job.upstream.results = providers_data
                                /\ job.command = command
                             THEN 2 ELSE 1]

UpdateMovieProvidersCall(movie, providers_data) ==
    LET r == UpdateMovieProviders(availability, streamingProviders, movie,
                                  providers_data)
    IN  /\ availability' = r.rows
        /\ streamingProviders' = r.providers
        /\ job' = CallRecord("update_movie_providers", ContentItem("movie", movie),
                             providers_data, r.ret)
        /\ UNCHANGED <<catalog, posters, notIngestVars>>

UpdateTvProvidersCall(show, providers_data) ==
    LET r == UpdateTvProviders(availability, streamingProviders, show,
                               providers_data)
    IN  /\ availability' = r.rows
        /\ streamingProviders' = r.providers
        /\ job' = CallRecord("update_tv_providers", ContentItem("tv", show),
                             providers_data, r.ret)
        /\ UNCHANGED <<catalog, posters, notIngestVars>>

NextProviders ==
    \/ \E i \in DOMAIN StoredMovies, providers_data \in ProviderResults :
          UpdateMovieProvidersCall(StoredMovies[i], providers_data)
    \/ \E i \in DOMAIN StoredShows, providers_data \in ProviderResults :
          UpdateTvProvidersCall(StoredShows[i], providers_data)

SpecProviders == InitProviders /\ [][NextProviders]_vars

\* The availability rows of an item, as the set of rows that exist.
RowsOf(rows, item) == {r \in AvailabilityRows : r.item = item /\ rows[r] > 0}

\* C14: running update_movie_providers (or update_tv_providers) a second time
\* for the same item with the same response leaves the availability rows as
\* the first run left them, and no (item, provider, region, type) tuple is
\* ever stored twice.
C14_RefreshIdempotent ==
    /\ [](\A r \in AvailabilityRows : availability[r] <= 1)
    /\ [][(/\ job'.command \in {"update_movie_providers", "update_tv_providers"}
           /\ job'.command = job.command
           /\ job'.item = job.item
           /\ job'.upstream = job.upstream)
             => /\ availability' = availability
                /\ streamingProviders' = streamingProviders
         ]_vars

\* Movie 603 was refreshed twice in a row with the response that lists a
\* stream in NO, a purchase in NO and a rental in US: it has these three rows.
C14_Witness ==
    /\ job.command = "update_movie_providers"
    /\ job.repeat = 2
    /\ job.item = ContentItem("movie", 603)
    /\ job.upstream.results = StreamRentBuy
    /\ Cardinality(RowsOf(availability, job.item)) = 3
    /\ \E r \in AvailabilityRows : r.item # job.item /\ availability[r] > 0

(***************************************************************************)
(* update_watch_providers: handle, with the default options (both media    *)
(* types, no limit), one item per step                                     *)
(***************************************************************************)
\* The item the loop of handle is at.
CurrentItem ==
    IF job.pc = "movies" THEN ContentItem("movie", StoredMovies[job.index])
    ELSE ContentItem("tv", StoredShows[job.index])

\* updated = skipped = 0 and the first loop is entered
HandleStart ==
    /\ job.pc \in {"idle", "done"}
    /\ job' = [NoJob EXCEPT !.command = "update_watch_providers",
                            !.pc = "movies", !.index = 1,
                            !.selected = Len(StoredMovies) + Len(StoredShows)]
    /\ UNCHANGED <<availability, streamingProviders, catalog, posters, notIngestVars>>

\* One pass of a loop body: fetch, then update when the data is not empty.
RefreshItem(loop, sequence, after, response_) ==
    /\ job.command = "update_watch_providers"
    /\ job.pc = loop
    /\ LET item           == CurrentItem
           providers_data == FetchWatchProviders(response_)
           r == IF loop = "movies"
                THEN UpdateMovieProviders(availability, streamingProviders,
                                          item.tmdb_id, providers_data)
                ELSE UpdateTvProviders(availability, streamingProviders,
                                       item.tmdb_id, providers_data)
           called  == providers_data # <<>>
           success == called /\ r.ret = "True"
           last_   == job.index = Len(sequence)
       IN  /\ availability' = IF called THEN r.rows ELSE availability
           /\ streamingProviders' = IF called THEN r.providers
                                    ELSE streamingProviders
           /\ job' = [job EXCEPT
                        !.item = item,
                        !.upstream = response_,
                        !.ret = IF called THEN r.ret ELSE "None",
                        !.updated = IF success THEN @ + 1 ELSE @,
                        !.skipped = IF success THEN @ ELSE @ + 1,
                        !.index = IF last_ THEN 1 ELSE @ + 1,
                        !.pc = IF last_ THEN after ELSE @]
    /\ UNCHANGED <<catalog, posters, notIngestVars>>

RefreshMovie(response_) == RefreshItem("movies", StoredMovies, "tv", response_)

RefreshShow(response_) == RefreshItem("tv", StoredShows, "done", response_)

NextRefresh ==
    \/ HandleStart
    \/ \E response_ \in ProviderUpstreams : RefreshMovie(response_)
    \/ \E response_ \in ProviderUpstreams : RefreshShow(response_)

SpecRefresh == InitProviders /\ [][NextRefresh]_vars

\* A step of handle that processes an item.
ProcessesItem == job.pc \in {"movies", "tv"} /\ job' # job

\* A response whose lists name every provider and list it once per type.
WellFormed(results) ==
    \A i \in DOMAIN results : \A t \in {"flatrate", "rent", "buy"} :
        /\ \A k \in DOMAIN results[i][t] : results[i][t][k].provider_name # None
        /\ \A k, l \in DOMAIN results[i][t] :
              results[i][t][k].provider_id = results[i][t][l].provider_id => k = l

\* The rows the response of an item asks for.
ExpectedRows(item, results) ==
    {r \in AvailabilityRows :
        /\ r.item = item
        /\ r.region \in {"NO", "US", "GB", "DE", "FR", "SE", "DK"}
        /\ \E i \in DOMAIN results :
              /\ results[i].region = r.region
              /\ \E k \in DOMAIN results[i][r.type] :
                    results[i][r.type][k].provider_id = r.provider}

\* C15: after handle has processed an item whose request was answered (status
\* 200, well-formed lists), the item's rows are exactly the (provider, region,
\* type) tuples of the response in the allowed regions and the three types;
\* rows from before that the response does not list are gone, also when the
\* response lists nothing.
C15_RowsAreResponse ==
    [][(ProcessesItem /\ job'.upstream.status = 200
            /\ WellFormed(job'.upstream.results))
          => RowsOf(availability', job'.item)
                = ExpectedRows(job'.item, job'.upstream.results)
     ]_vars

\* handle has processed movie 603 with an answered request that lists no
\* availability, and the row of an earlier run is still stored.
C15_Witness ==
    /\ job.command = "update_watch_providers"
    /\ job.item = ContentItem("movie", 603)
    /\ job.upstream = [status |-> 200, results |-> NoAvailability]
    /\ job.ret = "None"
    /\ RowsOf(availability, job.item) # {}

\* C16: when the update of an item fails (update_movie_providers or
\* update_tv_providers returns False), the rows of the item are as they were
\* before the item was started, and no step that processes an item changes
\* the rows of another item.
C16_FailedItemRolledBack ==
    [][ProcessesItem
          => /\ \A r \in AvailabilityRows :
                   r.item # job'.item => availability'[r] = availability[r]
             /\ job'.ret = "False" => availability' = availability
     ]_vars

\* In a batch that had updated movie 603, the update of movie 604 failed on
\* the rent entry without a name, after the earlier rows of 604 were deleted
\* and the stream row of provider 9 was created: the failed update has left
\* that row and no other, and the rows of 603 are stored.
C16_Witness ==
    /\ job.command = "update_watch_providers"
    /\ job.item = ContentItem("movie", 604)
    /\ job.upstream.results = EntryWithoutName
    /\ job.ret = "False"
    /\ job.updated = 1
    /\ RowsOf(availability, ContentItem("movie", 603)) # {}
    /\ RowsOf(availability, job.item)
          = {[item |-> job.item, provider |-> 9, region |-> "NO",
              type |-> "flatrate"]}

(***************************************************************************)
(* populate_db: handle with one page per media type, one item per step     *)
(***************************************************************************)
\* The ids of the popular page of a media type.
PopularPage(media_type) ==
    IF media_type = "movie" THEN <<603, 604>> ELSE <<1399>>

\* What a request can do: answer with 200, answer with another status, or
\* raise (no connection).
RequestOutcomes == {"200", "500", "raises"}

\* What update_or_create can do.
WriteOutcomes == {"written", "raises"}

\* Whether the item of the list comes with an overview.
Overviews == {"", "overview"}

InitPopulate ==
    /\ FriendsStart
    /\ ProfileStart
    /\ SearchIdle
    /\ UtilIdle
    /\ IngestIdle
    /\ CacheIdle
    /\ ToggleIdle

\* Movie.objects.filter(tmdb_id=...).first() with title and overview
ExistingComplete(item) ==
    \E row \in catalog : row.item = item /\ row.complete

\* Movie.objects.update_or_create(tmdb_id=..., defaults=...)
UpdateOrCreate(rows, item, overview) ==
    {row \in rows : row.item # item}
        \cup {[item |-> item, complete |-> overview # ""]}

\* handle: movie_count = tv_count = 0, then handle_movies
PopulateStart ==
    /\ job.pc \in {"idle", "done", "aborted"}
    /\ job' = [NoJob EXCEPT !.command = "populate_db", !.pc = "fetch_movie"]
    /\ UNCHANGED <<availability, streamingProviders, catalog, posters, notIngestVars>>

\* The phase after the loop over the list of a media type.
AfterList(media_type) == IF media_type = "movie" THEN "fetch_tv" ELSE "done"

\* fetch_popular_media: the request is not guarded, a status other than 200
\* gives the empty list.
FetchPopularMedia(media_type, outcome) ==
    /\ job.command = "populate_db"
    /\ job.pc = "fetch_" \o media_type
    /\ job' = [job EXCEPT
                 !.ret = outcome,
                 !.selected = IF outcome = "200"
                              THEN @ + Len(PopularPage(media_type)) ELSE @,
                 !.index = IF outcome = "200" THEN 1 ELSE 0,
                 !.pc = CASE outcome = "raises" -> "aborted"
                          [] outcome = "500" -> AfterList(media_type)
                          [] OTHER -> media_type]
    /\ UNCHANGED <<availability, streamingProviders, catalog, posters, notIngestVars>>

\* The file download_poster writes for an item: the item's poster_path
\* without its leading slash, under MEDIA_ROOT/posters. The list gives every
\* item a poster_path of its own.
LocalFilename(item) == item.media_type \o "_" \o Str(item.tmdb_id) \o ".jpg"

\* download_poster, when the request is answered with 200: the file is
\* opened with "wb" and written, whether it exists or not.
WritePoster(files, item) == files \cup {LocalFilename(item)}

\* What download_poster did: a request that is not answered with 200 writes
\* no file; an answered one writes the file again when it is there already.
Download(files, item, poster) ==
    CASE poster # "200" -> "failed"
      [] LocalFilename(item) \in files -> "again"
      [] OTHER -> "first"

\* One pass of the loop body of handle_movies / handle_tv_shows.
PopulateItem(media_type, overview, poster, write) ==
    /\ job.command = "populate_db"
    /\ job.pc = media_type
    /\ LET item     == ContentItem(media_type, PopularPage(media_type)[job.index])
           last_    == job.index = Len(PopularPage(media_type))
           continue == ExistingComplete(item)
           raised   == ~continue /\ (poster = "raises" \/ write = "raises")
           stored   == ~continue /\ ~raised
       IN  /\ posters' = IF ~continue /\ poster = "200"
                         THEN WritePoster(posters, item) ELSE posters
           /\ catalog' = IF stored THEN UpdateOrCreate(catalog, item, overview)
                         ELSE catalog
           /\ job' = [job EXCEPT
                        !.item = item,
                        !.ret = CASE continue -> "continue"
                                  [] raised -> "raised"
                                  [] OTHER -> "counted",
                        !.download = IF continue THEN "none"
                                     ELSE Download(posters, item, poster),
                        !.updated = IF stored THEN @ + 1 ELSE @,
                        !.index = IF raised \/ last_ THEN @ ELSE @ + 1,
                        !.pc = CASE raised -> "aborted"
                                 [] last_ -> AfterList(media_type)
                                 [] OTHER -> @]
    /\ UNCHANGED <<availability, streamingProviders, notIngestVars>>

NextPopulate ==
    \/ PopulateStart
    \/ \E media_type \in {"movie", "tv"}, outcome \in RequestOutcomes :
          FetchPopularMedia(media_type, outcome)
    \/ \E media_type \in {"movie", "tv"}, overview \in Overviews,
          poster \in RequestOutcomes, write \in WriteOutcomes :
          PopulateItem(media_type, overview, poster, write)

SpecPopulate == InitPopulate /\ [][NextPopulate]_vars

\* C17: a job never stops before its last item, and when it has finished the
\* counts it reports add up to the number of items it selected.
C17_JobsCompleteAndCount ==
    /\ job.pc # "aborted"
    /\ job.pc = "done" => job.updated + job.skipped = job.selected

\* populate_db stored movie 603 and stopped at movie 604, whose poster
\* request or row write raised.
C17_Witness ==
    /\ job.command = "populate_db"
    /\ job.pc = "aborted"
    /\ job.item = ContentItem("movie", 604)
    /\ job.updated = 1
    /\ \E row \in catalog : row.item = ContentItem("movie", 603)

(***************************************************************************)
(* TMDBClient._make_request, with time passing between calls               *)
(***************************************************************************)
InitCache ==
    /\ FriendsStart
    /\ ProfileStart
    /\ SearchIdle
    /\ UtilIdle
    /\ IngestIdle
    /\ CacheIdle
    /\ ToggleIdle

MakeRequest(request, http) ==
    LET cache_key       == CacheKey(request.endpoint, request.params)
        cached_response == CacheGet(cache, cache_key, clock)
        raised          == http.status = 0 \/ RaiseForStatus(http.status)
        call == [endpoint |-> request.endpoint, params |-> request.params,
                 key |-> cache_key, at |-> clock]
    IN  IF cached_response # None
        THEN /\ lastRequest' =
                    call @@ [get |-> FALSE, outcome |-> "returned", status |-> 0,
                             data |-> cached_response,
                             fetched |-> lastRequest.fetched]
             /\ UNCHANGED <<cache, clock, notCacheVars>>
        ELSE IF raised
        THEN /\ lastRequest' =
                    call @@ [get |-> TRUE, outcome |-> "raised",
                             status |-> http.status, data |-> None,
                             fetched |-> lastRequest.fetched]
             /\ UNCHANGED <<cache, clock, notCacheVars>>
        ELSE /\ cache' = CacheSet(cache, cache_key, http.data[1], clock)
             /\ lastRequest' =
                    call @@ [get |-> TRUE, outcome |-> "returned",
                             status |-> http.status, data |-> http.data,
                             fetched |-> (request :> [at |-> clock,
                                                      data |-> http.data[1]])
                                            @@ lastRequest.fetched]
             /\ UNCHANGED <<clock, notCacheVars>>

Tick ==
    /\ clock + TickMinutes <= MaxClock
    /\ clock' = clock + TickMinutes
    /\ UNCHANGED <<cache, lastRequest, notCacheVars>>

NextCache ==
    \/ \E request \in Requests, http \in HttpOutcomes : MakeRequest(request, http)
    \/ Tick

SpecCache == InitCache /\ [][NextCache]_vars

\* An answered GET of a call with the same cache key was made less than 15
\* minutes ago.
Fresh(call, now) ==
    \E r \in DOMAIN lastRequest.fetched :
        /\ CacheKey(r.endpoint, r.params) = CacheKey(call.endpoint, call.params)
        /\ now - lastRequest.fetched[r].at < 15

\* A step that is a call of _make_request.
IsCall == clock' = clock /\ lastRequest'.outcome # "none"

\* C18: a call issues a GET exactly when no answered GET for its key was made
\* in the last 15 minutes; otherwise it returns the body of that GET and the
\* cache stays as it is.  The cache changes only in a call whose GET was
\* answered with a 2xx status, and only at the key of the call; a call that
\* raises has issued a GET and leaves the cache as it is.
C18_GetOnlyWhenNoFreshEntry ==
    [][IsCall =>
         LET call == [endpoint |-> lastRequest'.endpoint,
                      params |-> lastRequest'.params]
         IN  /\ lastRequest'.get <=> ~Fresh(call, clock)
             /\ Fresh(call, clock) =>
                   /\ lastRequest'.outcome = "returned"
                   /\ lastRequest'.data = Some(lastRequest.fetched[call].data)
                   /\ cache' = cache
             /\ cache' # cache =>
                   /\ lastRequest'.get
                   /\ lastRequest'.status \in 200..299
                   /\ \A k \in DOMAIN cache : k # lastRequest'.key => 
                         k \in DOMAIN cache' /\ cache'[k] = cache[k]
             /\ lastRequest'.outcome = "raised" =>
                   lastRequest'.get /\ cache' = cache
     ]_vars

\* The search call of minute 0 was answered with "v1"; the same call at minute
\* 10 returned "v1" without a GET although two other calls were cached since.
C18_Witness ==
    /\ lastRequest.endpoint = "search/movie"
    /\ lastRequest.key = "tmdb_search/movie_page:1_query:x"
    /\ lastRequest.at = 10
    /\ ~lastRequest.get
    /\ lastRequest.data = Some("v1")
    /\ Cardinality(DOMAIN cache) = 3

(***************************************************************************)
(* get_validated_region                                                    *)
(***************************************************************************)
MaxRegionLen == 3

\* The characters of the region parameter: the letters of NO and US in both
\* cases, and a digit.
RegionChars == {"n", "N", "o", "O", "u", "U", "s", "S", "1"}

KeepCase(c) == c

\* str.upper() on one character
UpperChar(c) ==
    CASE c = "n" -> "N"
      [] c = "o" -> "O"
      [] c = "u" -> "U"
      [] c = "s" -> "S"
      [] OTHER -> c

\* str.upper(): the text with every character uppercased
RECURSIVE Upper(_)
Upper(chars) ==
    IF chars = <<>> THEN ""
    ELSE UpperChar(Head(chars)) \o Upper(Tail(chars))

\* request.GET.get('region', None): absent, or a text of 0..MaxRegionLen
\* characters
RegionParams ==
    {None} \cup {Some(chars) : chars \in BoundedSeq(RegionChars, MaxRegionLen)}

GetValidatedRegion(region_param) ==
    LET default_region == "US"
    IN  IF region_param # None /\ region_param[1] # <<>>
        THEN LET region_param_upper == Upper(region_param[1])
                 valid_regions       == REGION_CHOICES
             IN  IF region_param_upper \in valid_regions
                 THEN region_param_upper ELSE default_region
        ELSE default_region

RegionArgs == [fn : {"get_validated_region"}, region : RegionParams]

InitRegion ==
    /\ FriendsStart
    /\ ProfileStart
    /\ SearchIdle
    /\ args \in RegionArgs
    /\ returned = NotReturned
    /\ IngestIdle
    /\ CacheIdle
    /\ ToggleIdle

GetValidatedRegionCall ==
    /\ args.fn = "get_validated_region"
    /\ returned.status = "none"
    /\ returned' = [status |-> "returned", region |-> GetValidatedRegion(args.region)]
    /\ UNCHANGED <<args, notUtilVars>>

NextRegion == GetValidatedRegionCall

SpecRegion == InitRegion /\ [][NextRegion]_vars

\* The supported codes, letter by letter.
SupportedCodes ==
    [NO |-> <<"N", "O">>, US |-> <<"U", "S">>, GB |-> <<"G", "B">>,
     DE |-> <<"D", "E">>, FR |-> <<"F", "R">>, SE |-> <<"S", "E">>,
     DK |-> <<"D", "K">>]

\* Two letters that differ at most in case.
SameLetter(a, b) ==
    \E pair \in {<<"n", "N">>, <<"o", "O">>, <<"u", "U">>, <<"s", "S">>} :
        {a, b} \subseteq {pair[1], pair[2]}

\* The text is the code, compared case-insensitively.
IsCode(chars, code) ==
    /\ Len(chars) = Len(SupportedCodes[code])
    /\ \A i \in DOMAIN chars :
          chars[i] = SupportedCodes[code][i] \/ SameLetter(chars[i], SupportedCodes[code][i])

\* C19: get_validated_region returns the supported code that the region
\* parameter is, compared case-insensitively, in upper case; for every other
\* value, for the empty text and for an absent parameter it returns 'US'.
\* The result is always a supported code.
C19_ValidatedRegion ==
    returned.status = "returned" /\ args.fn = "get_validated_region" =>
        /\ returned.region \in {"NO", "US", "GB", "DE", "FR", "SE", "DK"}
        /\ \A code \in DOMAIN SupportedCodes :
              (args.region # None /\ IsCode(args.region[1], code))
                  => returned.region = code
        /\ (args.region = None
               \/ ~\E code \in DOMAIN SupportedCodes : IsCode(args.region[1], code))
                  => returned.region = "US"

\* get_validated_region was called with 'no' and returned 'NO'.
C19_Witness ==
    /\ args.fn = "get_validated_region"
    /\ args.region = Some(<<"n", "o">>)
    /\ returned.status = "returned"
    /\ returned.region = "NO"

(***************************************************************************)
(* Watchlist and watched requests of one user, statement by statement      *)
(***************************************************************************)
\* What a watchlist or watched request leaves alone.
notToggleVars == <<viewProc, friendVars, searchVars, utilVars, ingestVars, cacheVars>>

InitToggle ==
    /\ FriendsStart
    /\ ProfileStart
    /\ SearchIdle
    /\ UtilIdle
    /\ IngestIdle
    /\ CacheIdle
    /\ ToggleIdle

\* .filter(user=..., media_id=..., media_type=...).first()
First(rows, media_id, media_type) ==
    IF \E r \in rows : SameTitle(r, media_id, media_type)
    THEN Some(CHOOSE r \in rows : SameTitle(r, media_id, media_type))
    ELSE None

Answer(handler, status) == [handler |-> handler, status |-> status, context |-> None]

Selected(op, t, title, existing) ==
    [pc |-> "selected", op |-> op, media_id |-> t.media_id,
     media_type |-> t.media_type, title |-> title, existing |-> existing]

\* add_to_watchlist, lines 916-931: the query for the existing item
AddToWatchlistSelect(p, t, title) ==
    /\ toggleProc[p].pc = "idle"
    /\ toggleProc' = [toggleProc EXCEPT ![p] =
          Selected("add_to_watchlist", t, title,
                   First(watchlist, t.media_id, t.media_type))]
    /\ UNCHANGED <<watched, watchlist, userBadges, response, notToggleVars>>

\* add_to_watchlist, lines 933-956: delete the item found, or create one.
\* An IntegrityError of create is not caught and ends the request (500).
AddToWatchlistWrite(p) ==
    LET req == toggleProc[p]
        row == [media_id |-> req.media_id, media_type |-> req.media_type,
                title |-> req.title]
    IN  /\ req.pc = "selected"
        /\ req.op = "add_to_watchlist"
        /\ IF req.existing # None
           THEN /\ watchlist' = watchlist \ {req.existing[1]}
                /\ response' = Answer(req.op, 302)
           ELSE /\ watchlist' = CreateWatchlistItem(watchlist, row)
                /\ response' = Answer(req.op,
                                      IF row \in watchlist' /\ row \notin watchlist
                                      THEN 302 ELSE 500)
        /\ toggleProc' = [toggleProc EXCEPT ![p] = IdleToggle]
        /\ UNCHANGED <<watched, userBadges, notToggleVars>>

\* remove_from_watchlist, lines 962-968: get_object_or_404; the Http404 is
\* caught by the except clause and answered with status 400.
RemoveFromWatchlistSelect(p, t) ==
    LET existing == First(watchlist, t.media_id, t.media_type)
    IN  /\ toggleProc[p].pc = "idle"
        /\ IF existing = None
           THEN /\ response' = Answer("remove_from_watchlist", 400)
                /\ UNCHANGED toggleProc
           ELSE /\ toggleProc' = [toggleProc EXCEPT ![p] =
                      Selected("remove_from_watchlist", t, "", existing)]
                /\ UNCHANGED response
        /\ UNCHANGED <<watched, watchlist, userBadges, notToggleVars>>

\* remove_from_watchlist, lines 969-980: item.delete()
RemoveFromWatchlistDelete(p) ==
    LET req == toggleProc[p]
    IN  /\ req.pc = "selected"
        /\ req.op = "remove_from_watchlist"
        /\ watchlist' = watchlist \ {req.existing[1]}
        /\ response' = Answer(req.op, 302)
        /\ toggleProc' = [toggleProc EXCEPT ![p] = IdleToggle]
        /\ UNCHANGED <<watched, userBadges, notToggleVars>>

\* profile_view with mark_watched, up to line 740: the award loops, then the
\* query for the existing entry; an entry that exists ends the request.
MarkWatchedSelect(p, t) ==
    LET existing == First(watched, t.media_id, t.media_type)
    IN  /\ toggleProc[p].pc = "idle"
        /\ userBadges' = AwardBadges(userBadges, BadgeOrder, Counters(watched))
        /\ IF existing # None
           THEN /\ response' = Answer("mark_watched", 302)
                /\ UNCHANGED toggleProc
           ELSE /\ toggleProc' = [toggleProc EXCEPT ![p] =
                      Selected("mark_watched", t, "", existing)]
                /\ UNCHANGED response
        /\ UNCHANGED <<watched, watchlist, notToggleVars>>

\* profile_view with mark_watched, lines 745-779: the runtime from TMDB, then
\* WatchedMovie.objects.create; its IntegrityError ends the request (500).
MarkWatchedCreate(p, runtime) ==
    LET req == toggleProc[p]
        taken == \E w \in watched : SameTitle(w, req.media_id, req.media_type)
    IN  /\ req.pc = "selected"
        /\ req.op = "mark_watched"
        /\ watched' = CreateWatched(watched, req.media_id, req.media_type, runtime)
        /\ IF taken
           THEN /\ response' = Answer(req.op, 500)
                /\ toggleProc' = [toggleProc EXCEPT ![p] = IdleToggle]
           ELSE /\ toggleProc' = [toggleProc EXCEPT ![p].pc = "created"]
                /\ UNCHANGED response
        /\ UNCHANGED <<watchlist, userBadges, notToggleVars>>

\* profile_view with mark_watched, lines 781-788: the watchlist delete
MarkWatchedDeleteWatchlist(p) ==
    LET req == toggleProc[p]
    IN  /\ req.pc = "created"
        /\ watchlist' = {i \in watchlist :
                            ~ SameTitle(i, req.media_id, req.media_type)}
        /\ response' = Answer(req.op, 302)
        /\ toggleProc' = [toggleProc EXCEPT ![p] = IdleToggle]
        /\ UNCHANGED <<watched, userBadges, notToggleVars>>

\* profile_view with remove_watched, up to line 840
RemoveWatchedSelect(p, t) ==
    LET existing == First(watched, t.media_id, t.media_type)
    IN  /\ toggleProc[p].pc = "idle"
        /\ userBadges' = AwardBadges(userBadges, BadgeOrder, Counters(watched))
        /\ IF existing = None
           THEN /\ response' = Answer("remove_watched", 302)
                /\ UNCHANGED toggleProc
           ELSE /\ toggleProc' = [toggleProc EXCEPT ![p] =
                      Selected("remove_watched", t, "", existing)]
                /\ UNCHANGED response
        /\ UNCHANGED <<watched, watchlist, notToggleVars>>

\* profile_view with remove_watched, lines 842-847: item.delete()
RemoveWatchedDelete(p) ==
    LET req == toggleProc[p]
    IN  /\ req.pc = "selected"
        /\ req.op = "remove_watched"
        /\ watched' = watched \ {req.existing[1]}
        /\ response' = Answer(req.op, 302)
        /\ toggleProc' = [toggleProc EXCEPT ![p] = IdleToggle]
        /\ UNCHANGED <<watchlist, userBadges, notToggleVars>>

NextToggle ==
    \/ \E p \in Procs, t \in ToggleTitles, title \in TitleTexts :
          AddToWatchlistSelect(p, t, title)
    \/ \E p \in Procs : AddToWatchlistWrite(p)
    \/ \E p \in Procs, t \in ToggleTitles : RemoveFromWatchlistSelect(p, t)
    \/ \E p \in Procs : RemoveFromWatchlistDelete(p)
    \/ \E p \in Procs, t \in ToggleTitles : MarkWatchedSelect(p, t)
    \/ \E p \in Procs, runtime \in RuntimeInputs : MarkWatchedCreate(p, runtime)
    \/ \E p \in Procs : MarkWatchedDeleteWatchlist(p)
    \/ \E p \in Procs, t \in ToggleTitles : RemoveWatchedSelect(p, t)
    \/ \E p \in Procs : RemoveWatchedDelete(p)

SpecToggle == InitToggle /\ [][NextToggle]_vars

\* C20: the watchlist holds at most one item and the watched table at most
\* one entry per (user, media_id, media_type), whatever the interleaving of
\* the statements of add, remove, mark-watched and remove-watched requests.
C20_NoDuplicates ==
    /\ \A i, j \in watchlist :
          SameTitle(i, j.media_id, j.media_type) => i = j
    /\ \A v, w \in watched :
          SameTitle(v, w.media_id, w.media_type) => v = w

\* Two add requests for the same title both found no item; the first created
\* the item and the second, sent with another title text, was answered 500.
C20_Witness ==
    /\ response = Answer("add_to_watchlist", 500)
    /\ \E i \in watchlist : i.media_id = "603" /\ i.media_type = "movie"
    /\ \A p \in Procs : toggleProc[p].pc = "idle"

(***************************************************************************)
(* Credentials: TMDBClient and the management commands                     *)
(***************************************************************************)
\* os.environ.get / os.getenv: the variable is unset, empty, or set.
ApiKeys == {None, Some(""), Some("key")}

AccessTokens == {None, Some(""), Some("token")}

\* The components that send requests to TMDB.
Commands == {"update_watch_providers", "update_details", "get_providers_logo",
             "populate_db", "populate_genres"}

Components == {"TMDBClient"} \cup Commands

\* bool(value) of an environment value
Set(value) == value # None /\ value # Some("")

\* f"{value}": None is formatted as the text "None"
Format(value) == IF value = None THEN "None" ELSE value[1]

\* TMDBClient.__init__: ValueError without a key and a token; the
\* Authorization header is None without a token.
ClientInit(api_key, access_token) ==
    IF ~(Set(api_key) \/ Set(access_token))
    THEN [status |-> "ValueError", authorization |-> None]
    ELSE [status |-> "started",
          authorization |-> IF Set(access_token)
                            THEN Some("Bearer " \o access_token[1]) ELSE None]

\* The module level of a command: config.py reads the environment and HEADERS
\* is built from whatever it read.
CommandImport(api_key, access_token) ==
    [status |-> "started",
     authorization |-> Some("Bearer " \o Format(access_token))]

\* What requests.get puts on the wire: a header or parameter that is None is
\* left out.  TMDBClient sends its headers, and api_key when it has one;
\* the commands send HEADERS, populate_db the key inside the URL (formatted),
\* populate_genres the key as a parameter.
FirstRequest(component, api_key, authorization) ==
    CASE component = "TMDBClient" ->
            [authorization |-> authorization,
             api_key |-> IF Set(api_key) THEN api_key ELSE None]
      [] component = "populate_db" ->
            [authorization |-> None, api_key |-> Some(Format(api_key))]
      [] component = "populate_genres" ->
            [authorization |-> None, api_key |-> api_key]
      [] OTHER ->
            [authorization |-> authorization, api_key |-> None]

CredentialArgs ==
    [fn : Components, api_key : ApiKeys, access_token : AccessTokens]

InitCredentials ==
    /\ FriendsStart
    /\ ProfileStart
    /\ SearchIdle
    /\ args \in CredentialArgs
    /\ returned = NotReturned
    /\ IngestIdle
    /\ CacheIdle
    /\ ToggleIdle

\* The component is constructed (TMDBClient()) or imported (a command).
Start ==
    /\ args.fn \in Components
    /\ returned.status = "none"
    /\ LET made == IF args.fn = "TMDBClient"
                   THEN ClientInit(args.api_key, args.access_token)
                   ELSE CommandImport(args.api_key, args.access_token)
       IN  returned' = [status |-> made.status,
                        authorization |-> made.authorization, request |-> None]
    /\ UNCHANGED <<args, notUtilVars>>

\* The first request of the component that has started.
SendRequest ==
    /\ args.fn \in Components
    /\ returned.status = "started"
    /\ returned' = [returned EXCEPT
                      !.status = "requested",
                      !.request = Some(FirstRequest(args.fn, args.api_key,
                                                    returned.authorization))]
    /\ UNCHANGED <<args, notUtilVars>>

NextCredentials == Start \/ SendRequest

SpecCredentials == InitCredentials /\ [][NextCredentials]_vars

\* Neither the key nor the token is set in the environment.
NoCredential == args.api_key \in {None, Some("")} /\ args.access_token \in {None, Some("")}

\* C21: without a key and a token a component ends at its start with a
\* configuration error and never issues a request.
C21_NoRequestWithoutCredential ==
    (args.fn \in Components /\ NoCredential /\ returned.status # "none")
        => returned.status = "ValueError"

\* update_watch_providers, run with neither variable set, has sent a request
\* whose Authorization header is "Bearer None".
C21_Witness ==
    /\ args.fn = "update_watch_providers"
    /\ args.api_key = None
    /\ args.access_token = None
    /\ returned.status = "requested"
    /\ returned.request = Some([authorization |-> Some("Bearer None"),
                                api_key |-> None])

\* What does hold: TMDBClient raises ValueError without a credential and
\* every request it sends carries the token or the key of the environment.
ClientRequestsCarryCredential ==
    args.fn = "TMDBClient" =>
        /\ (NoCredential /\ returned.status # "none") => returned.status = "ValueError"
        /\ returned.status = "requested" =>
              \/ /\ args.access_token = Some("token")
                 /\ returned.request[1].authorization = Some("Bearer token")
              \/ /\ args.api_key = Some("key")
                 /\ returned.request[1].api_key = Some("key")

(***************************************************************************)
(* get_provider_logo_url                                                   *)
(***************************************************************************)
MaxPathLen == 4

\* The characters of a logo path: the slash and the letters of "None".
PathChars == {"/", "N", "o", "n", "e"}

\* logo_path: None, or a text of 0..MaxPathLen characters
LogoPaths ==
    {None} \cup {Some(chars) : chars \in BoundedSeq(PathChars, MaxPathLen)}

\* The text of a sequence of characters.
RECURSIVE Text(_)
Text(chars) == IF chars = <<>> THEN "" ELSE Head(chars) \o Text(Tail(chars))

NeverStartsWith(chars, prefix) == FALSE

\* str.startswith with a prefix of one character
StartsWith(chars, prefix) == chars # <<>> /\ Head(chars) = prefix

GetProviderLogoUrl(logo_path) ==
    IF logo_path = None \/ logo_path[1] = <<>> \/ Text(logo_path[1]) = "None"
    THEN None
    ELSE LET base_url == "https://image.tmdb.org/t/p/w92"
         IN  IF StartsWith(logo_path[1], "/")
             THEN Some(base_url \o Text(logo_path[1]))
             ELSE Some(base_url \o "/" \o Text(logo_path[1]))

LogoArgs == [fn : {"get_provider_logo_url"}, logo_path : LogoPaths]

InitLogo ==
    /\ FriendsStart
    /\ ProfileStart
    /\ SearchIdle
    /\ args \in LogoArgs
    /\ returned = NotReturned
    /\ IngestIdle
    /\ CacheIdle
    /\ ToggleIdle

GetProviderLogoUrlCall ==
    /\ args.fn = "get_provider_logo_url"
    /\ returned.status = "none"
    /\ returned' = [status |-> "returned", url |-> GetProviderLogoUrl(args.logo_path)]
    /\ UNCHANGED <<args, notUtilVars>>

NextLogo == GetProviderLogoUrlCall

SpecLogo == InitLogo /\ [][NextLogo]_vars

\* The path without its first character when that is a slash.
WithoutLeadingSlash(chars) ==
    IF chars # <<>> /\ chars[1] = "/" THEN Tail(chars) ELSE chars

\* C22: get_provider_logo_url returns no URL for None, "" and "None"; for
\* every other path it returns the base, one "/", and the path without the
\* slash it may start with.
C22_LogoUrl ==
    (returned.status = "returned" /\ args.fn = "get_provider_logo_url") =>
        IF \/ args.logo_path = None
           \/ args.logo_path = Some(<<>>)
           \/ args.logo_path = Some(<<"N", "o", "n", "e">>)
        THEN returned.url = None
        ELSE returned.url =
                Some("https://image.tmdb.org/t/p/w92" \o "/"
                        \o Text(WithoutLeadingSlash(args.logo_path[1])))

\* get_provider_logo_url("/one") returned the base followed by "/one".
C22_Witness ==
    /\ args.fn = "get_provider_logo_url"
    /\ args.logo_path = Some(<<"/", "o", "n", "e">>)
    /\ returned.status = "returned"
    /\ returned.url = Some("https://image.tmdb.org/t/p/w92/one")

(***************************************************************************)
(* The next badge of the profile page                                      *)
(***************************************************************************)
\* C23: on a rendered profile page the next badge of each kind is a badge the
\* user does not hold, the one with the lowest threshold among those, and
\* the progress reported with it lies between 0 and 100.
C23_NextBadgeUngranted ==
    (response.handler = "get" /\ response.context # None) =>
        \A k \in DOMAIN response.context[1].next_badge :
            LET next == response.context[1].next_badge[k]
            IN  /\ response.context[1].progress[k] \in 0..100
                /\ next # None =>
                      /\ userBadges[next[1].id] = 0
                      /\ \A b \in Badges :
                            (b.requirement_type = k /\ userBadges[b.id] = 0)
                                => next[1].requirement_count <= b.requirement_count

\* The user holds the one-movie badge and has removed the watched movie: the
\* page rendered with no movie watched reports that badge as the next one.
C23_Witness ==
    /\ response.handler = "get"
    /\ response.context # None
    /\ response.context[1].movies_watched = 0
    /\ response.context[1].next_badge["movies_watched"] # None
    /\ response.context[1].next_badge["movies_watched"][1].id = "movie_1"
    /\ response.context[1].progress["movies_watched"] = 0
    /\ userBadges["movie_1"] = 1

(***************************************************************************)
(* The rating of a watched entry                                           *)
(***************************************************************************)
\* C24: the rating stored on a watched entry is absent or an integer from 1
\* to 5.
C24_RatingInRange ==
    \A w \in watched : w.rating = None \/ w.rating[1] \in 1..5

\* A rate_content request with rating "9" was answered with the redirect and
\* the watched entry of title 603 has the rating 9.
C24_Witness ==
    /\ response.handler = "rate_content"
    /\ response.status = 302
    /\ \E w \in watched : w.media_id = "603" /\ w.rating = Some(9)

(***************************************************************************)
(* popular: the filter parameters, on the page and on the error page       *)
(***************************************************************************)
MaxProviderParams == 2

MaxDigits == 2

\* The region parameter of the request: absent, empty, a code in either
\* case, or no code.
PopularRegions ==
    {None, Some(<<>>), Some(<<"N", "O">>), Some(<<"n", "o">>), Some(<<"s", "o">>)}

\* The characters of a provider parameter.
ProviderChars == {"8", "9", "a", "-"}

\* request.GET.getlist('provider')
ProviderParams ==
    BoundedSeq(BoundedSeq(ProviderChars, MaxDigits), MaxProviderParams)

\* str.isdigit(): not empty and digits only
IsDigit(chars) == chars # <<>> /\ \A i \in DOMAIN chars : chars[i] \in {"8", "9"}

\* int(pid_str) of a digit string
RECURSIVE ToInt(_)
ToInt(chars) ==
    IF chars = <<>> THEN 0
    ELSE 10 * ToInt(SubSeq(chars, 1, Len(chars) - 1))
            + (IF chars[Len(chars)] = "8" THEN 8 ELSE 9)

\* Lines 267-271 and 331-335: the digit strings, converted, in their order
RECURSIVE SelectedProviderIds(_)
SelectedProviderIds(params) ==
    IF params = <<>> THEN <<>>
    ELSE (IF IsDigit(Head(params)) THEN <<ToInt(Head(params))>> ELSE <<>>)
            \o SelectedProviderIds(Tail(params))

\* request.GET.get('region', 'US'): the parameter as it was sent
ErrorRegion(region_param) ==
    IF region_param = None THEN "US" ELSE Text(region_param[1])

\* popular: the page when nothing raises while it is built, else the error
\* page of the except clause; both are rendered with status 200.
Popular(region_param, provider_params, raises) ==
    IF ~raises
    THEN [status |-> 200, error |-> FALSE,
          selected_region |-> GetValidatedRegion(region_param),
          selected_provider_ids |-> SelectedProviderIds(provider_params)]
    ELSE [status |-> 200, error |-> TRUE,
          selected_region |-> ErrorRegion(region_param),
          selected_provider_ids |-> SelectedProviderIds(provider_params)]

PopularRequests ==
    [fn : {"popular"}, region : PopularRegions, provider : ProviderParams,
     raises : BOOLEAN]

InitPopularRequest ==
    /\ FriendsStart
    /\ ProfileStart
    /\ SearchIdle
    /\ args \in PopularRequests
    /\ returned = NotReturned
    /\ IngestIdle
    /\ CacheIdle
    /\ ToggleIdle

PopularCall ==
    /\ args.fn = "popular"
    /\ returned.status = "none"
    /\ returned' = [status |-> "returned",
                    response |-> Popular(args.region, args.provider, args.raises)]
    /\ UNCHANGED <<args, notUtilVars>>

NextPopularRequest == PopularCall

SpecPopularRequest == InitPopularRequest /\ [][NextPopularRequest]_vars

\* C25: every response of popular, the error page included, is a rendered
\* page whose selected region is a supported code and whose selected provider
\* ids are the digit-string parameters as integers.
C25_FiltersNormalized ==
    (args.fn = "popular" /\ returned.status = "returned") =>
        /\ returned.response.status = 200
        /\ returned.response.selected_region
              \in {"NO", "US", "GB", "DE", "FR", "SE", "DK"}
        /\ returned.response.selected_provider_ids
              = SelectedProviderIds(args.provider)

\* An exception occurred for a request with region=so: the error page names
\* "so" as the selected region.
C25_Witness ==
    /\ args.fn = "popular"
    /\ args.region = Some(<<"s", "o">>)
    /\ args.raises
    /\ returned.status = "returned"
    /\ returned.response.error
    /\ returned.response.selected_region = "so"

\* What does hold: on the page that was built without an exception the
\* region is a supported code, and on both pages the provider ids are the
\* digit strings.
PageFiltersNormalized ==
    (args.fn = "popular" /\ returned.status = "returned") =>
        /\ returned.response.status = 200
        /\ ~returned.response.error =>
              returned.response.selected_region
                  \in {"NO", "US", "GB", "DE", "FR", "SE", "DK"}
        /\ \A i \in DOMAIN returned.response.selected_provider_ids :
              returned.response.selected_provider_ids[i] \in {8, 9, 88, 89, 98, 99}

(***************************************************************************)
(* The watch-hours counter                                                 *)
(***************************************************************************)
\* The minutes one watched entry counts for.
MinutesOf(w) ==
    IF w.runtime # None THEN w.runtime[1]
    ELSE IF w.media_type = "movie" THEN 120 ELSE 400

RECURSIVE MinutesOfAll(_)
MinutesOfAll(rows) ==
    IF rows = {} THEN 0
    ELSE LET w == CHOOSE x \in rows : TRUE
         IN  MinutesOf(w) + MinutesOfAll(rows \ {w})

\* floor(M / 60): the largest h with 60 * h <= M
HoursOf(rows) ==
    CHOOSE h \in 0..MinutesOfAll(rows) :
        60 * h <= MinutesOfAll(rows) /\ MinutesOfAll(rows) < 60 * (h + 1)

\* C26: the watch-hours counter of a rendered page is floor(M / 60), M being
\* the stored runtimes plus 120 per movie and 400 per TV show without one;
\* every request to the profile grants the watch_hours badges whose threshold
\* that value of the entries it found has reached, and grants no other
\* watch_hours badge.
C26_WatchHours ==
    /\ [](response.handler = "get" /\ response.context # None
            => response.context[1].watch_hours = HoursOf(watched))
    /\ [][\A b \in Badges : b.requirement_type = "watch_hours" =>
            /\ HoursOf(watched) >= b.requirement_count => userBadges'[b.id] = 1
            /\ userBadges'[b.id] > userBadges[b.id]
                  => HoursOf(watched) >= b.requirement_count
         ]_vars

\* A movie with a stored runtime of 90 minutes and a movie without one (120)
\* are watched: 210 minutes, the page shows 3 hours and the three-hour badge
\* is held.
C26_Witness ==
    /\ response.handler = "get"
    /\ response.context # None
    /\ response.context[1].watch_hours = 3
    /\ Cardinality(watched) = 2
    /\ \E w \in watched : w.runtime = Some(90)
    /\ \E w \in watched : w.runtime = None /\ w.media_type = "movie"
    /\ userBadges["viewer_3"] = 1

(***************************************************************************)
(* TMDBClient.keyword_search                                               *)
(***************************************************************************)
MaxKeywords == 4

\* The ids of the keywords the keyword search can list.
KeywordIds == {11, 12, 13, 14}

\* What search/keyword answers: its results, 0..MaxKeywords keyword ids.
KeywordResults == BoundedSeq(KeywordIds, MaxKeywords)

\* What discover/movie answers for a keyword.
Discover(keyword_id) == [with_keywords |-> keyword_id]

\* The return value {} of a search that found no keyword.
EmptyDict == [with_keywords |-> 0]

AllKeywords(results) == results

\* keyword_search["results"][:3]
TopKeywords(results) ==
    SubSeq(results, 1, IF Len(results) < 3 THEN Len(results) ELSE 3)

\* The loop of lines 247-252: one discover request per keyword, each result
\* replacing the one before.
RECURSIVE DiscoverEach(_, _)
DiscoverEach(st, top_keywords) ==
    IF top_keywords = <<>> THEN st
    ELSE LET keyword_id == Head(top_keywords)
         IN  DiscoverEach([results |-> Discover(keyword_id),
                           requests |-> Append(st.requests,
                                           [endpoint |-> "discover/movie",
                                            with_keywords |-> keyword_id])],
                          Tail(top_keywords))

KeywordSearch(keyword_results) ==
    LET searched == [results |-> EmptyDict,
                     requests |-> <<[endpoint |-> "search/keyword",
                                     with_keywords |-> 0]>>]
    IN  IF keyword_results = <<>> THEN searched
        ELSE DiscoverEach(searched, TopKeywords(keyword_results))

KeywordArgs == [fn : {"keyword_search"}, keywords : KeywordResults]

InitKeyword ==
    /\ FriendsStart
    /\ ProfileStart
    /\ SearchIdle
    /\ args \in KeywordArgs
    /\ returned = NotReturned
    /\ IngestIdle
    /\ CacheIdle
    /\ ToggleIdle

KeywordSearchCall ==
    /\ args.fn = "keyword_search"
    /\ returned.status = "none"
    /\ LET r == KeywordSearch(args.keywords)
       IN  returned' = [status |-> "returned", results |-> r.results,
                        requests |-> r.requests]
    /\ UNCHANGED <<args, notUtilVars>>

NextKeyword == KeywordSearchCall

SpecKeyword == InitKeyword /\ [][NextKeyword]_vars

\* The discover requests of a call.
DiscoverRequests ==
    SelectSeq(returned.requests, LAMBDA r : r.endpoint = "discover/movie")

FlagIds == {603, 604}

\* What a queryset yields: rows of distinct tmdb_id, in the database's order.
FlagRows ==
    {<<>>} \cup {<<[tmdb_id |-> i]>> : i \in FlagIds}
           \cup {q \in {<<[tmdb_id |-> i], [tmdb_id |-> j]>> :
                            i \in FlagIds, j \in FlagIds} :
                    q[1] # q[2]}

\* get_watchlist_ids: the media_id column (CharField) of the user's
\* WatchlistItem rows, or the empty list for an anonymous user. The list is
\* only tested for membership, so it is kept as the set of its elements.
GetWatchlistIds(is_authenticated, rows) ==
    IF is_authenticated THEN {w.media_id : w \in rows} ELSE {}

\* process_content_item: 'id', 'type' and 'in_watchlist' of the record
FlaggedContentItem(item, watchlist_ids, media_type) ==
    [id |-> Str(item.tmdb_id),
     type |-> media_type,
     in_watchlist |-> Str(item.tmdb_id) \in watchlist_ids]

\* popular, lines 276-285: both querysets processed with the same
\* watchlist_ids
FlaggedContent(movies_qs, tv_shows_qs, watchlist_ids) ==
    [i \in 1..Len(movies_qs) |->
        FlaggedContentItem(movies_qs[i], watchlist_ids, "movie")]
    \o [i \in 1..Len(tv_shows_qs) |->
        FlaggedContentItem(tv_shows_qs[i], watchlist_ids, "tv")]

FlagArgs ==
    [fn : {"flags"},
     is_authenticated : BOOLEAN,
     rows : SUBSET Titles,
     movies_qs : FlagRows,
     tv_shows_qs : FlagRows]

InitFlags ==
    /\ FriendsStart
    /\ ProfileStart
    /\ SearchIdle
    /\ IngestIdle
    /\ CacheIdle
    /\ ToggleIdle
    /\ args \in FlagArgs
    /\ returned = NotReturned

PopularFlags ==
    /\ args.fn = "flags"
    /\ returned.status = "none"
    /\ returned' = [status |-> "returned",
                    records |->
                        FlaggedContent(args.movies_qs, args.tv_shows_qs,
                            GetWatchlistIds(args.is_authenticated, args.rows))]
    /\ UNCHANGED <<args, notUtilVars>>

NextFlags == PopularFlags

SpecFlags == InitFlags /\ [][NextFlags]_vars

\* C28: the in_watchlist flag of a record of the popular list is true exactly
\* when the user's watchlist holds an item of the record's id and the
\* record's media type.
C28_FlagMatchesIdAndType ==
    (args.fn = "flags" /\ returned.status = "returned") =>
        \A i \in DOMAIN returned.records :
            LET record == returned.records[i]
            IN  record.in_watchlist <=>
                    /\ args.is_authenticated
                    /\ \E w \in args.rows :
                           /\ w.media_id = record.id
                           /\ w.media_type = record.type

\* The user has only the movie 603 on the watchlist, and the record of the TV
\* show 603 is flagged.
C28_Witness ==
    /\ args.fn = "flags"
    /\ returned.status = "returned"
    /\ args.is_authenticated
    /\ args.rows = {[media_id |-> "603", media_type |-> "movie"]}
    /\ \E i \in DOMAIN returned.records :
           /\ returned.records[i].id = "603"
           /\ returned.records[i].type = "tv"
           /\ returned.records[i].in_watchlist

\* What the code does compute: the flag is true exactly when the watchlist
\* holds an item of the record's id, of either media type.
FlagMatchesId ==
    (args.fn = "flags" /\ returned.status = "returned") =>
        \A i \in DOMAIN returned.records :
            LET record == returned.records[i]
            IN  record.in_watchlist <=>
                    /\ args.is_authenticated
                    /\ \E w \in args.rows : w.media_id = record.id

(***************************************************************************)
(* rate_content: the request's outcome                                     *)
(***************************************************************************)
\* The ratings a request carries that save() can store: none, or the text
\* of an integer.
StorableRatings == {rating \in RatingInputs : rating = None \/ IsNumber(rating[1])}

\* C29: a rate_content request for a media_id updates the rating and the
\* review of the user's watched entry of that id or, when the user has no
\* such entry, changes nothing; it is answered with the redirect and never
\* ends in an unhandled error, whatever the user has watched.
C29_RateUpdatesOrNothing ==
    [][\A media_id \in MediaIds, rating \in StorableRatings, review \in ReviewInputs :
          ProfileRateContent(media_id, rating, review) =>
              /\ response'.status = 302
              /\ IF \E w \in watched : w.media_id = media_id
                 THEN \E w \in watched' :
                          /\ w.media_id = media_id
                          /\ w.rating = (IF rating = None THEN None
                                         ELSE Some(IntOf(rating[1])))
                          /\ w.review = review
                 ELSE watched' = watched]_vars

\* The user has watched the movie 603 and the TV show 603, and a rate_content
\* request has ended with an error.
C29_Witness ==
    /\ response.handler = "rate_content"
    /\ response.status = 500
    /\ \E m \in watched, t \in watched :
           /\ m.media_id = "603" /\ m.media_type = "movie"
           /\ t.media_id = "603" /\ t.media_type = "tv"

\* With at most one watched entry per media_id the request does what C29
\* says.
RateUpdatesSingleEntry ==
    [][\A media_id \in MediaIds, rating \in StorableRatings, review \in ReviewInputs :
          (/\ ProfileRateContent(media_id, rating, review)
           /\ Cardinality({w \in watched : w.media_id = media_id}) <= 1) =>
              /\ response'.status = 302
              /\ IF \E w \in watched : w.media_id = media_id
                 THEN \E w \in watched' :
                          /\ w.media_id = media_id
                          /\ w.rating = (IF rating = None THEN None
                                         ELSE Some(IntOf(rating[1])))
                          /\ w.review = review
                 ELSE watched' = watched]_vars

(***************************************************************************)
(* populate_db run again over the same popular pages                       *)
(***************************************************************************)
\* The item the next pass of the loop handles.
CurrentPopular(media_type) ==
    ContentItem(media_type, PopularPage(media_type)[job.index])

\* The list gives the item the overview it gave when the row was stored.
SameUpstream(item, overview) ==
    \A row \in catalog : row.item = item => (row.complete <=> overview # "")

\* C30: in a run over the same upstream pages an item that has a title and
\* an overview is skipped with its row unchanged, and no poster whose file
\* exists is downloaded again.
C30_RerunIsNoOp ==
    [][\A media_type \in {"movie", "tv"}, overview \in Overviews,
          poster \in RequestOutcomes, write \in WriteOutcomes :
          (/\ PopulateItem(media_type, overview, poster, write)
           /\ SameUpstream(CurrentPopular(media_type), overview)) =>
              /\ ExistingComplete(CurrentPopular(media_type)) =>
                    /\ catalog' = catalog
                    /\ posters' = posters
                    /\ job'.download = "none"
              /\ LocalFilename(CurrentPopular(media_type)) \in posters =>
                    job'.download # "again"]_vars

\* The row of movie 603 was stored without an overview and its poster file
\* written; the next run stored the row again, still without an overview,
\* and downloaded the poster again.
C30_Witness ==
    /\ job.command = "populate_db"
    /\ job.item = ContentItem("movie", 603)
    /\ job.ret = "counted"
    /\ job.download = "again"
    /\ LocalFilename(job.item) \in posters
    /\ \E row \in catalog : row.item = job.item /\ ~row.complete

\* The first half of C30: an item whose row is complete is skipped, with no
\* request for its poster and nothing written.
CompleteItemSkipped ==
    [][\A media_type \in {"movie", "tv"}, overview \in Overviews,
          poster \in RequestOutcomes, write \in WriteOutcomes :
          (/\ PopulateItem(media_type, overview, poster, write)
           /\ ExistingComplete(CurrentPopular(media_type))) =>
              /\ catalog' = catalog
              /\ posters' = posters
              /\ job'.download = "none"
              /\ job'.updated = job.updated]_vars
=============================================================================
